---- MODULE Spec2Model ----
(***************************************************************************)
(* A model of tuivio's server core: the PtyManager (pty-manager.ts: child  *)
(* lifecycle, ANSI interpreter and screen buffer), the TerminalRegistry    *)
(* (terminal-registry.ts) and the tool handlers of index.ts that track the *)
(* focused terminal.                                                       *)
(*                                                                         *)
(* Characters are one-token strings ("a", "[", "ESC", "LF", ...); a chunk  *)
(* of child output and a screen line are sequences of such tokens.         *)
(***************************************************************************)
EXTENDS Integers, Sequences, FiniteSets, TLC

\* ------------------------------------------------------------------------
\* Bounds of the model
\* ------------------------------------------------------------------------
\* Largest value nextId reaches in the server model (IDs 1 .. MaxNextId - 1).
MaxNextId == 3
\* Largest value nextId reaches in the registry model.
MaxRegistryNextId == 11
\* Most PtyManager objects of the registry model that are alive at once (in
\* the map, or removed with a child that has not exited yet).
MaxTerminals == 2
\* Most children that have been spawned and have not exited yet.
MaxProcs == 2
\* Most characters of child output one incarnation receives (rawBuffer) in the
\* server model.
MaxRaw == 1
\* The same for the PtyManager driven on its own.
MaxPtyRaw == 3
\* The same for the PtyManager that is only started and resized.
MaxOutputRaw == 4
\* Most callbacks setTimeout holds for the live renderer.
MaxTimers == 2
\* the size N of the raw-output ring at the model's scale (below MaxPtyRaw)
RawRingBound == 2
\* Largest grid dimension a caller asks for.
MaxDim == 2

\* ------------------------------------------------------------------------
\* Characters
\* ------------------------------------------------------------------------
ESC == "ESC"
BEL == "BEL"
CR == "CR"
LF == "LF"
BS == "BS"
TAB == "TAB"
SPACE == " "
\* A row slot of a JavaScript array that was never assigned.
Undefined == <<"undefined">>

Digits == <<"0", "1", "2", "3", "4", "5", "6", "7", "8", "9">>

DigitSet == {Digits[i] : i \in 1..10}

Letters ==
  {"A","B","C","D","E","F","G","H","I","J","K","L","M","N","O","P","Q","R","S",
   "T","U","V","W","X","Y","Z","a","b","c","d","e","f","g","h","i","j","k","l",
   "m","n","o","p","q","r","s","t","u","v","w","x","y","z"}

\* Characters below ' ' (the test char >= ' ' of processOutput fails on them).
ControlChars == {ESC, BEL, CR, LF, BS, TAB, "NUL"}

\* [0-9;] of the CSI regular expression
CsiParamChars == DigitSet \cup {";"}

\* [A-Za-z@ and grave accent] of the CSI regular expression
CsiFinalChars == Letters \cup {"@", "GRAVE"}

\* Characters the dot of a regular expression does not match.
LineTerminators == {LF, CR}

Min(a, b) == IF a < b THEN a ELSE b

Max(a, b) == IF a > b THEN a ELSE b

\* ------------------------------------------------------------------------
\* JavaScript string and array primitives
\* ------------------------------------------------------------------------
\* ''.padEnd(n, ' ')
Blank(n) == [i \in 1..n |-> SPACE]

\* s.padEnd(n, ' ')
PadEnd(s, n) == IF Len(s) >= n THEN s ELSE s \o Blank(n - Len(s))

\* index normalisation of String.prototype.slice
SliceIndex(i, n) == IF i < 0 THEN Max(n + i, 0) ELSE Min(i, n)

\* s.slice(a, b), 0-based, b exclusive, negative indices from the end
Slice(s, a, b) ==
  LET from == SliceIndex(a, Len(s))
      to == SliceIndex(b, Len(s))
  IN IF to <= from THEN <<>> ELSE SubSeq(s, from + 1, to)

\* s.slice(a)
SliceFrom(s, a) == Slice(s, a, Len(s))

\* arr[idx] (0-based); undefined outside the array
ArrGet(arr, idx) ==
  IF idx >= 0 /\ idx < Len(arr) THEN arr[idx + 1] ELSE Undefined

\* arr[idx] = v (0-based); assigning past the end leaves holes
ArrSet(arr, idx, v) ==
  IF idx < Len(arr)
  THEN [arr EXCEPT ![idx + 1] = v]
  ELSE arr \o [i \in 1..(idx - Len(arr)) |-> Undefined] \o <<v>>

\* parseInt(n, 10) || 0 on a string of decimal digits ('' gives NaN, hence 0)
RECURSIVE ParseDigits(_, _)
ParseDigits(s, acc) ==
  IF s = <<>> THEN acc
  ELSE ParseDigits(Tail(s), acc * 10 + ((CHOOSE i \in 1..10 : Digits[i] = Head(s)) - 1))

ParseInt10(s) == ParseDigits(s, 0)

\* params.split(';') on a string over [0-9;]
RECURSIVE SplitSemi(_, _, _)
SplitSemi(s, cur, acc) ==
  IF s = <<>> THEN Append(acc, cur)
  ELSE IF Head(s) = ";" THEN SplitSemi(Tail(s), <<>>, Append(acc, cur))
  ELSE SplitSemi(Tail(s), Append(cur, Head(s)), acc)

\* params ? params.split(';').map((n) => parseInt(n, 10) || 0) : []
CsiArgs(params) ==
  IF params = <<>> THEN <<>>
  ELSE LET parts == SplitSemi(params, <<>>, <<>>)
       IN [i \in 1..Len(parts) |-> ParseInt10(parts[i])]

\* args[k] || dflt (k 0-based)
ArgOr(args, k, dflt) ==
  IF k < Len(args) /\ args[k + 1] # 0 THEN args[k + 1] ELSE dflt

\* ------------------------------------------------------------------------
\* PtyManager: the object and its screen buffer (pty-manager.ts)
\* ------------------------------------------------------------------------
\* ptyProcess is 0 for null, else the number that names the IPty object: a
\* manager's children that have not exited carry different numbers.
\* lastExitInfo is "null" or "exit".

\* An operation's outcome: the object afterwards and whether it threw.
Ok(m) == [m |-> m, threw |-> FALSE]

Throw(m) == [m |-> m, threw |-> TRUE]

\* private initializeBuffer()
initializeBuffer(m) ==
  [m EXCEPT !.screenBuffer = [r \in 1..m.rows |-> Blank(m.cols)],
            !.cursorRow = 0,
            !.cursorCol = 0]

\* constructor(options)
NewPtyManager(command, cols, rows) ==
  initializeBuffer(
    [options |-> [command |-> command, cols |-> cols, rows |-> rows],
     ptyProcess |-> 0,
     screenBuffer |-> <<>>,
     rawBuffer |-> <<>>,
     cols |-> cols,
     rows |-> rows,
     cursorRow |-> 0,
     cursorCol |-> 0,
     isRunning |-> FALSE,
     lastExitInfo |-> "null"])

\* screenBuffer.shift(); screenBuffer.push(''.padEnd(cols, ' '))
ScrollUp(m) ==
  [m EXCEPT !.screenBuffer =
     Append(IF @ = <<>> THEN @ ELSE Tail(@), Blank(m.cols))]

\* a putChar that wraps only when the cursor is past the column after the
\* last one
putCharLateWrap(m, char) ==
  IF m.cursorRow < 0 \/ m.cursorRow >= m.rows THEN Ok(m)
  ELSE
    LET line == ArrGet(m.screenBuffer, m.cursorRow) IN
    IF line = Undefined THEN Throw(m)
    ELSE
      LET before == Slice(line, 0, m.cursorCol)
          after == SliceFrom(line, m.cursorCol + 1)
          m1 == [m EXCEPT !.screenBuffer =
                   ArrSet(@, m.cursorRow, before \o <<char>> \o after),
                          !.cursorCol = @ + 1]
      IN IF m1.cursorCol > m1.cols
         THEN LET m2 == [m1 EXCEPT !.cursorCol = 0, !.cursorRow = @ + 1]
              IN IF m2.cursorRow >= m2.rows
                 THEN Ok([ScrollUp(m2) EXCEPT !.cursorRow = m2.rows - 1])
                 ELSE Ok(m2)
         ELSE Ok(m1)

\* private putChar(char)
putChar(m, char) ==
  IF m.cursorRow < 0 \/ m.cursorRow >= m.rows THEN Ok(m)
  ELSE
    LET line == ArrGet(m.screenBuffer, m.cursorRow) IN
    IF line = Undefined THEN Throw(m)
    ELSE
      LET before == Slice(line, 0, m.cursorCol)
          after == SliceFrom(line, m.cursorCol + 1)
          m1 == [m EXCEPT !.screenBuffer =
                   ArrSet(@, m.cursorRow, before \o <<char>> \o after),
                          !.cursorCol = @ + 1]
      IN IF m1.cursorCol >= m1.cols
         THEN LET m2 == [m1 EXCEPT !.cursorCol = 0, !.cursorRow = @ + 1]
              IN IF m2.cursorRow >= m2.rows
                 THEN Ok([ScrollUp(m2) EXCEPT !.cursorRow = m2.rows - 1])
                 ELSE Ok(m2)
         ELSE Ok(m1)

\* a clearLine that blanks from start to the end of the line
clearLineToEnd(m, row, start, end) ==
  IF row < 0 \/ row >= m.rows THEN Ok(m)
  ELSE
    LET line == ArrGet(m.screenBuffer, row) IN
    IF line = Undefined THEN Throw(m)
    ELSE Ok([m EXCEPT !.screenBuffer =
               ArrSet(@, row, Slice(line, 0, start) \o Blank(Len(line) - start))])

\* private clearLine(row, start, end)
clearLine(m, row, start, end) ==
  IF row < 0 \/ row >= m.rows THEN Ok(m)
  ELSE
    LET line == ArrGet(m.screenBuffer, row) IN
    IF line = Undefined THEN Throw(m)
    ELSE
      LET before == Slice(line, 0, start)
          cleared == Blank(end - start)
          after == SliceFrom(line, end)
      IN Ok([m EXCEPT !.screenBuffer =
                ArrSet(@, row, before \o cleared \o after)])

\* for (r = from; r < to; r++) screenBuffer[r] = ''.padEnd(cols, ' ')
RECURSIVE BlankRows(_, _, _, _)
BlankRows(buf, from, to, cols) ==
  IF from >= to THEN buf
  ELSE BlankRows(ArrSet(buf, from, Blank(cols)), from + 1, to, cols)

\* private handleCSI(params, command)
handleCSI(m, params, command) ==
  LET args == CsiArgs(params) IN
  CASE command \in {"H", "f"} ->
         Ok([m EXCEPT
               !.cursorRow = Max(0, Min(m.rows - 1, ArgOr(args, 0, 1) - 1)),
               !.cursorCol = Max(0, Min(m.cols - 1, ArgOr(args, 1, 1) - 1))])
    [] command = "A" ->
         Ok([m EXCEPT !.cursorRow = Max(0, @ - ArgOr(args, 0, 1))])
    [] command = "B" ->
         Ok([m EXCEPT !.cursorRow = Min(m.rows - 1, @ + ArgOr(args, 0, 1))])
    [] command = "C" ->
         Ok([m EXCEPT !.cursorCol = Min(m.cols - 1, @ + ArgOr(args, 0, 1))])
    [] command = "D" ->
         Ok([m EXCEPT !.cursorCol = Max(0, @ - ArgOr(args, 0, 1))])
    [] command = "J" ->
         LET mode == ArgOr(args, 0, 0) IN
         IF mode = 0
         THEN LET c == clearLine(m, m.cursorRow, m.cursorCol, m.cols) IN
              IF c.threw THEN c
              ELSE Ok([c.m EXCEPT !.screenBuffer =
                         BlankRows(@, m.cursorRow + 1, m.rows, m.cols)])
         ELSE IF mode = 1
         THEN clearLine([m EXCEPT !.screenBuffer =
                           BlankRows(@, 0, m.cursorRow, m.cols)],
                        m.cursorRow, 0, m.cursorCol + 1)
         ELSE IF mode = 2 \/ mode = 3 THEN Ok(initializeBuffer(m))
         ELSE Ok(m)
    [] command = "K" ->
         LET mode == ArgOr(args, 0, 0) IN
         IF mode = 0 THEN clearLine(m, m.cursorRow, m.cursorCol, m.cols)
         ELSE IF mode = 1 THEN clearLine(m, m.cursorRow, 0, m.cursorCol + 1)
         ELSE IF mode = 2
         THEN Ok([m EXCEPT !.screenBuffer =
                    ArrSet(@, m.cursorRow, Blank(m.cols))])
         ELSE Ok(m)
    [] command = "@" ->
         LET count == ArgOr(args, 0, 1)
             line == ArrGet(m.screenBuffer, m.cursorRow)
         IN IF line = Undefined THEN Throw(m)
            ELSE LET before == Slice(line, 0, m.cursorCol)
                     after == Slice(line, m.cursorCol, 0 - count)
                 IN Ok([m EXCEPT !.screenBuffer =
                          ArrSet(@, m.cursorRow,
                                 Slice(before \o Blank(count) \o after, 0, m.cols))])
    [] command = "P" ->
         LET count == ArgOr(args, 0, 1)
             line == ArrGet(m.screenBuffer, m.cursorRow)
         IN IF line = Undefined THEN Throw(m)
            ELSE LET before == Slice(line, 0, m.cursorCol)
                     after == SliceFrom(line, m.cursorCol + count)
                 IN Ok([m EXCEPT !.screenBuffer =
                          ArrSet(@, m.cursorRow, PadEnd(before \o after, m.cols))])
    [] OTHER -> Ok(m)

\* The CSI expression /^\x1b\[([0-9;]*)([A-Za-z@..])/ on data.slice(i): the (1-based) index of the
\* final character, or 0 when the expression does not match at i
CsiMatchEnd(data, i) ==
  IF i + 1 > Len(data) \/ data[i + 1] # "[" THEN 0
  ELSE LET stops == {j \in (i + 2)..Len(data) : data[j] \notin CsiParamChars} IN
       IF stops = {} THEN 0
       ELSE LET j == CHOOSE k \in stops : \A l \in stops : k <= l
            IN IF data[j] \in CsiFinalChars THEN j ELSE 0

\* /^\x1b\].*?(?:\x07|\x1b\\)/ on data.slice(i): the index of the last matched
\* character, or 0 when the expression does not match at i
OscMatchEnd(data, i) ==
  IF i + 1 > Len(data) \/ data[i + 1] # "]" THEN 0
  ELSE LET ends == {j \in (i + 2)..Len(data) :
                      \/ data[j] = BEL
                      \/ data[j] = ESC /\ j + 1 <= Len(data) /\ data[j + 1] = "\\"}
       IN IF ends = {} THEN 0
          ELSE LET j == CHOOSE k \in ends : \A l \in ends : k <= l IN
               IF \E k \in (i + 2)..(j - 1) : data[k] \in LineTerminators THEN 0
               ELSE IF data[j] = BEL THEN j ELSE j + 1

\* a parser whose line feed also returns the cursor to column 0
RECURSIVE processFromImplicitCR(_, _, _)
processFromImplicitCR(m, data, i) ==
  IF i > Len(data) THEN Ok(m)
  ELSE
    LET char == data[i] IN
    IF char = ESC THEN
      LET csi == CsiMatchEnd(data, i)
          osc == OscMatchEnd(data, i)
      IN IF csi # 0
         THEN LET h == handleCSI(m, SubSeq(data, i + 2, csi - 1), data[csi])
              IN IF h.threw THEN h ELSE processFromImplicitCR(h.m, data, csi + 1)
         ELSE IF osc # 0 THEN processFromImplicitCR(m, data, osc + 1)
         ELSE IF i + 1 <= Len(data) /\ data[i + 1] = "c"
              THEN processFromImplicitCR(initializeBuffer(m), data, i + 2)
         ELSE IF i + 1 <= Len(data) /\ data[i + 1] \in {"7", "8"}
              THEN processFromImplicitCR(m, data, i + 2)
         ELSE IF i + 1 <= Len(data) /\ data[i + 1] \in {"(", ")"}
              THEN processFromImplicitCR(m, data, i + 3)
         ELSE processFromImplicitCR(m, data, i + 1)
    ELSE IF char = CR THEN processFromImplicitCR([m EXCEPT !.cursorCol = 0], data, i + 1)
    ELSE IF char = LF THEN
      LET m1 == [m EXCEPT !.cursorRow = @ + 1, !.cursorCol = 0] IN
      IF m1.cursorRow >= m1.rows
      THEN processFromImplicitCR([ScrollUp(m1) EXCEPT !.cursorRow = m1.rows - 1], data, i + 1)
      ELSE processFromImplicitCR(m1, data, i + 1)
    ELSE IF char = BS THEN
      processFromImplicitCR(IF m.cursorCol > 0 THEN [m EXCEPT !.cursorCol = @ - 1] ELSE m,
                  data, i + 1)
    ELSE IF char = TAB THEN
      processFromImplicitCR([m EXCEPT !.cursorCol =
                     Min(m.cols - 1, ((m.cursorCol \div 8) + 1) * 8)],
                  data, i + 1)
    ELSE IF char = BEL THEN processFromImplicitCR(m, data, i + 1)
    ELSE IF char \notin ControlChars THEN
      LET p == putChar(m, char) IN
      IF p.threw THEN p ELSE processFromImplicitCR(p.m, data, i + 1)
    ELSE processFromImplicitCR(m, data, i + 1)

\* private processOutput(data), the loop from index i (1-based) on
RECURSIVE processFrom(_, _, _)
processFrom(m, data, i) ==
  IF i > Len(data) THEN Ok(m)
  ELSE
    LET char == data[i] IN
    IF char = ESC THEN
      LET csi == CsiMatchEnd(data, i)
          osc == OscMatchEnd(data, i)
      IN IF csi # 0
         THEN LET h == handleCSI(m, SubSeq(data, i + 2, csi - 1), data[csi])
              IN IF h.threw THEN h ELSE processFrom(h.m, data, csi + 1)
         ELSE IF osc # 0 THEN processFrom(m, data, osc + 1)
         ELSE IF i + 1 <= Len(data) /\ data[i + 1] = "c"
              THEN processFrom(initializeBuffer(m), data, i + 2)
         ELSE IF i + 1 <= Len(data) /\ data[i + 1] \in {"7", "8"}
              THEN processFrom(m, data, i + 2)
         ELSE IF i + 1 <= Len(data) /\ data[i + 1] \in {"(", ")"}
              THEN processFrom(m, data, i + 3)
         ELSE processFrom(m, data, i + 1)
    ELSE IF char = CR THEN processFrom([m EXCEPT !.cursorCol = 0], data, i + 1)
    ELSE IF char = LF THEN
      LET m1 == [m EXCEPT !.cursorRow = @ + 1] IN
      IF m1.cursorRow >= m1.rows
      THEN processFrom([ScrollUp(m1) EXCEPT !.cursorRow = m1.rows - 1], data, i + 1)
      ELSE processFrom(m1, data, i + 1)
    ELSE IF char = BS THEN
      processFrom(IF m.cursorCol > 0 THEN [m EXCEPT !.cursorCol = @ - 1] ELSE m,
                  data, i + 1)
    ELSE IF char = TAB THEN
      processFrom([m EXCEPT !.cursorCol =
                     Min(m.cols - 1, ((m.cursorCol \div 8) + 1) * 8)],
                  data, i + 1)
    ELSE IF char = BEL THEN processFrom(m, data, i + 1)
    ELSE IF char \notin ControlChars THEN
      LET p == putChar(m, char) IN
      IF p.threw THEN p ELSE processFrom(p.m, data, i + 1)
    ELSE processFrom(m, data, i + 1)

processOutput(m, data) == processFrom(m, data, 1)

\* the ptyProcess.onData callback registered by start()
onData(m, data) ==
  processOutput([m EXCEPT !.rawBuffer = @ \o data], data)

\* the ptyProcess.onExit callback registered by start()
onExit(m) == [m EXCEPT !.isRunning = FALSE, !.lastExitInfo = "exit"]

\* An outcome that names the error thrown:
\*   "AlreadyRunning"  Error('PTY is already running')
\*   "InvalidCommand"  Error('No command specified. ...')
\*   "SpawnFailed"     whatever pty.spawn throws
\*   "NotRunning"      Error('PTY is not running')
\*   "UnknownKey"      Error('Unknown key: ...')
\*   "TypeError"       a TypeError of the runtime
Raise(m, error) == [m |-> m, threw |-> TRUE, error |-> error]

Return(m) == [m |-> m, threw |-> FALSE, error |-> "none"]

\* a start() that leaves the raw buffer and the exit record as they were
startKeepingRaw(m, child) ==
  IF m.isRunning THEN Raise(m, "AlreadyRunning")
  ELSE IF m.options.command = "" THEN Raise(m, "InvalidCommand")
  ELSE IF child = 0 THEN Raise(m, "SpawnFailed")
  ELSE Return(initializeBuffer(
            [m EXCEPT !.ptyProcess = child,
                      !.isRunning = TRUE]))

\* start(): child is the IPty that pty.spawn returns, 0 when pty.spawn throws
start(m, child) ==
  IF m.isRunning THEN Raise(m, "AlreadyRunning")
  ELSE IF m.options.command = "" THEN Raise(m, "InvalidCommand")
  ELSE IF child = 0 THEN Raise(m, "SpawnFailed")
  ELSE Return(initializeBuffer(
            [m EXCEPT !.ptyProcess = child,
                      !.isRunning = TRUE,
                      !.lastExitInfo = "null",
                      !.rawBuffer = <<>>]))

\* { ...a, ...b }: the properties of a, then those of b over them
Spread(a, b) ==
  [n \in DOMAIN a \cup DOMAIN b |-> IF n \in DOMAIN b THEN b[n] ELSE a[n]]

\* start(): the env handed to pty.spawn, from process.env and options.env
\* (an options.env that is undefined spreads like the empty object)
spawnEnv(processEnv, optionsEnv) ==
  Spread(Spread(processEnv, optionsEnv),
         [TERM |-> "xterm-256color", COLORTERM |-> "truecolor"])

\* typeText(text) / pressKey(key): the guard that throws 'PTY is not running'
NotRunning(m) == m.ptyProcess = 0 \/ ~m.isRunning

\* a stop() that signals whatever child ptyProcess refers to
StopKillsAny(m) == m.ptyProcess # 0

\* stop(): TRUE when it calls ptyProcess.kill()
StopKills(m) == m.ptyProcess # 0 /\ m.isRunning

stop(m) == IF StopKills(m) THEN [m EXCEPT !.isRunning = FALSE] ELSE m

\* a resize that pads and cuts the rows and leaves cols and rows as they were
resizeBufferOnly(m, cols, rows) ==
  LET grown == m.screenBuffer \o
                 [i \in 1..(rows - Len(m.screenBuffer)) |-> Blank(cols)]
      cut == SubSeq(grown, 1, rows)
  IN [m EXCEPT !.screenBuffer =
                 [r \in 1..Len(cut) |->
                    IF cut[r] = Undefined THEN Undefined
                    ELSE PadEnd(Slice(cut[r], 0, cols), cols)]]

\* resize(cols, rows)
resize(m, cols, rows) ==
  LET grown == m.screenBuffer \o
                 [i \in 1..(rows - Len(m.screenBuffer)) |-> Blank(cols)]
      cut == SubSeq(grown, 1, rows)
  IN [m EXCEPT !.cols = cols,
               !.rows = rows,
               !.screenBuffer =
                 [r \in 1..Len(cut) |->
                    IF cut[r] = Undefined THEN Undefined
                    ELSE IF Len(cut[r]) < cols THEN PadEnd(cut[r], cols)
                    ELSE IF Len(cut[r]) > cols THEN Slice(cut[r], 0, cols)
                    ELSE cut[r]]]

\* A field of Partial<PtyOptions> that is not provided.
Absent == "absent"

\* option updates that leave the command as it was
ApplyOptionsKeepingCommand(m, o) ==
  LET m2 == IF o.cols # 0 THEN [m EXCEPT !.options.cols = o.cols, !.cols = o.cols]
            ELSE m
  IN IF o.rows # 0 THEN [m2 EXCEPT !.options.rows = o.rows, !.rows = o.rows]
     ELSE m2

\* restart(options): the option updates between stop() and start(); args, cwd
\* or env that is not provided is a field the argument does not have
ApplyOptions(m, o) ==
  LET ma == IF "args" \in DOMAIN o THEN [m EXCEPT !.options.args = o.args] ELSE m
      mc == IF "cwd" \in DOMAIN o THEN [ma EXCEPT !.options.cwd = o.cwd] ELSE ma
      m0 == IF "env" \in DOMAIN o THEN [mc EXCEPT !.options.env = o.env] ELSE mc
      m1 == IF o.command # Absent /\ o.command # ""
            THEN [m0 EXCEPT !.options.command = o.command] ELSE m0
      m2 == IF o.cols # 0 THEN [m1 EXCEPT !.options.cols = o.cols, !.cols = o.cols]
            ELSE m1
  IN IF o.rows # 0 THEN [m2 EXCEPT !.options.rows = o.rows, !.rows = o.rows]
     ELSE m2

\* restart(options)
restart(m, o, child) == start(ApplyOptions(stop(m), o), child)

\* ------------------------------------------------------------------------
\* Keyboard input (pty-manager.ts: KEY_SEQUENCES, CTRL_KEYS, typeText, pressKey)
\* ------------------------------------------------------------------------
\* A key name or a text is a sequence of characters; what is written to the
\* PTY is the sequence of their character codes.

\* the characters with codes 32 .. 126, in code order
Printable ==
  <<
    " ", "!", "\"", "#", "$", "%", "&", "'", "(", ")", "*", "+", ",", "-", ".", "/",
    "0", "1", "2", "3", "4", "5", "6", "7", "8", "9", ":", ";", "<", "=", ">", "?",
    "@", "A", "B", "C", "D", "E", "F", "G", "H", "I", "J", "K", "L", "M", "N", "O",
    "P", "Q", "R", "S", "T", "U", "V", "W", "X", "Y", "Z", "[", "\\", "]", "^", "_",
    "GRAVE", "a", "b", "c", "d", "e", "f", "g", "h", "i", "j", "k", "l", "m", "n", "o",
    "p", "q", "r", "s", "t", "u", "v", "w", "x", "y", "z", "{", "|", "}", "~"
  >>

\* charCodeAt(0) of a printable character, of ESC, CR, LF, TAB, BS and BEL
CharCode(c) ==
  IF c = ESC THEN 27
  ELSE IF c = CR THEN 13
  ELSE IF c = LF THEN 10
  ELSE IF c = TAB THEN 9
  ELSE IF c = BS THEN 8
  ELSE IF c = BEL THEN 7
  ELSE 31 + (CHOOSE i \in 1..Len(Printable) : Printable[i] = c)

Encode(s) == [i \in 1..Len(s) |-> CharCode(s[i])]

\* const KEY_SEQUENCES
KEY_SEQUENCES ==
  (<<"e", "n", "t", "e", "r">> :> <<13>>)
  @@ (<<"r", "e", "t", "u", "r", "n">> :> <<13>>)
  @@ (<<"t", "a", "b">> :> <<9>>)
  @@ (<<"e", "s", "c", "a", "p", "e">> :> <<27>>)
  @@ (<<"e", "s", "c">> :> <<27>>)
  @@ (<<"b", "a", "c", "k", "s", "p", "a", "c", "e">> :> <<127>>)
  @@ (<<"d", "e", "l", "e", "t", "e">> :> <<27, 91, 51, 126>>)
  @@ (<<"u", "p">> :> <<27, 91, 65>>)
  @@ (<<"d", "o", "w", "n">> :> <<27, 91, 66>>)
  @@ (<<"r", "i", "g", "h", "t">> :> <<27, 91, 67>>)
  @@ (<<"l", "e", "f", "t">> :> <<27, 91, 68>>)
  @@ (<<"h", "o", "m", "e">> :> <<27, 91, 72>>)
  @@ (<<"e", "n", "d">> :> <<27, 91, 70>>)
  @@ (<<"p", "a", "g", "e", "u", "p">> :> <<27, 91, 53, 126>>)
  @@ (<<"p", "a", "g", "e", "d", "o", "w", "n">> :> <<27, 91, 54, 126>>)
  @@ (<<"i", "n", "s", "e", "r", "t">> :> <<27, 91, 50, 126>>)
  @@ (<<"f", "1">> :> <<27, 79, 80>>)
  @@ (<<"f", "2">> :> <<27, 79, 81>>)
  @@ (<<"f", "3">> :> <<27, 79, 82>>)
  @@ (<<"f", "4">> :> <<27, 79, 83>>)
  @@ (<<"f", "5">> :> <<27, 91, 49, 53, 126>>)
  @@ (<<"f", "6">> :> <<27, 91, 49, 55, 126>>)
  @@ (<<"f", "7">> :> <<27, 91, 49, 56, 126>>)
  @@ (<<"f", "8">> :> <<27, 91, 49, 57, 126>>)
  @@ (<<"f", "9">> :> <<27, 91, 50, 48, 126>>)
  @@ (<<"f", "1", "0">> :> <<27, 91, 50, 49, 126>>)
  @@ (<<"f", "1", "1">> :> <<27, 91, 50, 51, 126>>)
  @@ (<<"f", "1", "2">> :> <<27, 91, 50, 52, 126>>)
  @@ (<<"s", "p", "a", "c", "e">> :> <<32>>)

\* const CTRL_KEYS
CTRL_KEYS ==
  (<<"c", "t", "r", "l", "+", "a">> :> <<1>>)
  @@ (<<"c", "t", "r", "l", "+", "b">> :> <<2>>)
  @@ (<<"c", "t", "r", "l", "+", "c">> :> <<3>>)
  @@ (<<"c", "t", "r", "l", "+", "d">> :> <<4>>)
  @@ (<<"c", "t", "r", "l", "+", "e">> :> <<5>>)
  @@ (<<"c", "t", "r", "l", "+", "f">> :> <<6>>)
  @@ (<<"c", "t", "r", "l", "+", "g">> :> <<7>>)
  @@ (<<"c", "t", "r", "l", "+", "h">> :> <<8>>)
  @@ (<<"c", "t", "r", "l", "+", "i">> :> <<9>>)
  @@ (<<"c", "t", "r", "l", "+", "j">> :> <<10>>)
  @@ (<<"c", "t", "r", "l", "+", "k">> :> <<11>>)
  @@ (<<"c", "t", "r", "l", "+", "l">> :> <<12>>)
  @@ (<<"c", "t", "r", "l", "+", "m">> :> <<13>>)
  @@ (<<"c", "t", "r", "l", "+", "n">> :> <<14>>)
  @@ (<<"c", "t", "r", "l", "+", "o">> :> <<15>>)
  @@ (<<"c", "t", "r", "l", "+", "p">> :> <<16>>)
  @@ (<<"c", "t", "r", "l", "+", "q">> :> <<17>>)
  @@ (<<"c", "t", "r", "l", "+", "r">> :> <<18>>)
  @@ (<<"c", "t", "r", "l", "+", "s">> :> <<19>>)
  @@ (<<"c", "t", "r", "l", "+", "t">> :> <<20>>)
  @@ (<<"c", "t", "r", "l", "+", "u">> :> <<21>>)
  @@ (<<"c", "t", "r", "l", "+", "v">> :> <<22>>)
  @@ (<<"c", "t", "r", "l", "+", "w">> :> <<23>>)
  @@ (<<"c", "t", "r", "l", "+", "x">> :> <<24>>)
  @@ (<<"c", "t", "r", "l", "+", "y">> :> <<25>>)
  @@ (<<"c", "t", "r", "l", "+", "z">> :> <<26>>)

\* String.prototype.toLowerCase
toLowerCase(s) ==
  [i \in 1..Len(s) |->
     IF CharCode(s[i]) >= 65 /\ CharCode(s[i]) <= 90
     THEN Printable[CharCode(s[i]) + 32 - 31] ELSE s[i]]

WhiteSpace == {SPACE, TAB, LF, CR}

\* String.prototype.trim
RECURSIVE trimStart(_)
trimStart(s) ==
  IF s # <<>> /\ Head(s) \in WhiteSpace THEN trimStart(Tail(s)) ELSE s

RECURSIVE trimEnd(_)
trimEnd(s) ==
  IF s # <<>> /\ s[Len(s)] \in WhiteSpace
  THEN trimEnd(SubSeq(s, 1, Len(s) - 1)) ELSE s

trim(s) == trimEnd(trimStart(s))

\* The lower-case property names every object literal inherits from
\* Object.prototype: table[name] is a function or an object for them.
InheritedNames ==
  { <<"c", "o", "n", "s", "t", "r", "u", "c", "t", "o", "r">>,
    <<"_", "_", "p", "r", "o", "t", "o", "_", "_">> }

\* the value of an inherited member, and the text ptyProcess.write makes of it
\* when it does not reject it
Inherited == <<-1>>

\* no property of that name: undefined, which is falsy like ''
Missing == <<>>

\* table[name]
Lookup(table, name) ==
  IF name \in DOMAIN table THEN table[name]
  ELSE IF name \in InheritedNames THEN Inherited
  ELSE Missing

\* the outcome of an input operation: the error thrown and the data of the
\* ptyProcess.write call it made (<<>> when it made none)
Wrote(data) == [threw |-> FALSE, error |-> "none", written |-> <<data>>]

Rejected(error) == [threw |-> TRUE, error |-> error, written |-> <<>>]

\* ptyProcess.write(value): a value that is no string is either rejected with
\* a TypeError or written as text, depending on the PTY library
write(value, rejects) ==
  IF value = Inherited /\ rejects THEN Rejected("TypeError") ELSE Wrote(value)

\* a typeText without the guard
typeTextUnguarded(m, text) == Wrote(Encode(text))

\* typeText(text)
typeText(m, text) ==
  IF NotRunning(m) THEN Rejected("NotRunning") ELSE Wrote(Encode(text))

\* pressKey(key)
pressKey(m, key, rejects) ==
  IF NotRunning(m) THEN Rejected("NotRunning")
  ELSE LET normalizedKey == trim(toLowerCase(key)) IN
       IF Lookup(CTRL_KEYS, normalizedKey) # Missing
       THEN write(Lookup(CTRL_KEYS, normalizedKey), rejects)
       ELSE IF Lookup(KEY_SEQUENCES, normalizedKey) # Missing
       THEN write(Lookup(KEY_SEQUENCES, normalizedKey), rejects)
       ELSE IF Len(key) = 1 THEN Wrote(Encode(key))
       ELSE Rejected("UnknownKey")

\* key arguments: names of both tables in several spellings, single
\* characters, padded characters, unknown names
KeyInputs ==
  { <<"e", "n", "t", "e", "r">>,
    <<" ", "E", "n", "t", "e", "r">>,
    <<"c", "t", "r", "l", "+", "c">>,
    <<"C", "T", "R", "L", "+", "C", " ">>,
    <<"c", "t", "r", "l", "+", "z">>,
    <<"a">>,
    <<"A">>,
    <<" ", "a">>,
    <<" ">>,
    <<"u", "p">>,
    <<"f", "5">>,
    <<"x", "y">>,
    <<"c", "o", "n", "s", "t", "r", "u", "c", "t", "o", "r">>,
    <<"_", "_", "p", "r", "o", "t", "o", "_", "_">>,
    <<"c", "t", "r", "l", "+">>,
    <<"1">>,
    <<"s", "p", "a", "c", "e">> }

TextInputs == {<<"a">>, <<"a", LF>>}

\* ------------------------------------------------------------------------
\* State
\* ------------------------------------------------------------------------
\* Terminal IDs are decimal strings, modelled as sequences of digit characters;
\* a PtyManager object is named by the ID it was created under, the legacy
\* manager by Legacy.
Legacy == <<"legacy">>
\* focusedTerminalId = null
Null == <<>>
\* an optional terminal_id argument that is not given
Omitted == <<"omitted">>

VARIABLES
  server,             \* "up" | "crashed" (uncaught exception) | "exited"
  nextId,             \* TerminalRegistry.nextId
  terminals,          \* TerminalRegistry.terminals: id -> [running, command]
  focusedTerminalId,  \* index.ts focusedTerminalId
  mgr,                \* the PtyManager objects still referenced: name -> object
  procs,              \* children whose exit was not yet notified:
                      \*   [owner, pid, killed (ptyProcess.kill() was called)]
  emitted,            \* events the registry published in the last step
  result,             \* what the last step returned to its caller: the tool, the
                      \*   error thrown, the ID it names, the bytes it wrote to a
                      \*   PTY (NoResult after a step that is no request)
  pending,            \* per manager, the chunks read from its PTY that were
                      \*   not handed to onData yet (parser model only)
  live                \* live mirroring: tty (--live on a terminal), file
                      \*   (--live-file given), renderTimeout (the variable is
                      \*   not null), timers (callbacks setTimeout holds, in
                      \*   order), ops (what the last step wrote to the sinks)

vars == <<server, nextId, terminals, focusedTerminalId, mgr, procs, emitted,
          result, pending, live>>

\* new Map()
EmptyMap == [k \in {} |-> Null]

\* String(n) for n >= 1
RECURSIVE ToDecimal(_)
ToDecimal(n) ==
  IF n < 10 THEN <<Digits[n + 1]>>
  ELSE Append(ToDecimal(n \div 10), Digits[(n % 10) + 1])

Event(type, id) == [type |-> type, terminalId |-> id]

Reply(status, id) == [status |-> status, id |-> id]

\* the handler's result: error is "none" when isError is not set; id and
\* command are the terminal ID and the command its text names; written is the
\* sequence of ptyProcess.write calls the handler made
Result(tool, error, id, written) ==
  [tool |-> tool, error |-> error, id |-> id, command |-> "", written |-> written]

\* the result of run_tui / create_process: the text names the command and the
\* terminal ID, or it is the message of the error
Started(tool, error, id, command) ==
  IF error = "none"
  THEN [Result(tool, error, id, <<>>) EXCEPT !.command = command]
  ELSE Result(tool, error, Null, <<>>)

NoResult == Result("none", "none", Null, <<>>)

\* The child a manager's ptyProcess field refers to is alive: it has not
\* exited and was not sent a kill.
ChildAlive(h) ==
  \E p \in procs : p.owner = h /\ p.pid = mgr[h].ptyProcess /\ ~p.killed

\* ptyProcess.kill() inside stop(): the current child is signalled
KillCurrent(ps, h, m) ==
  {IF p.owner = h /\ p.pid = m.ptyProcess THEN [p EXCEPT !.killed = TRUE] ELSE p
     : p \in ps}

\* pty.spawn: a number no child of manager h that has not exited carries, 0
\* when the spawn fails
Spawn(ps, h, spawnOk) ==
  IF ~spawnOk THEN 0
  ELSE CHOOSE n \in 1..(Cardinality(ps) + 1) :
         /\ \A p \in ps : p.owner = h => p.pid # n
         /\ \A k \in 1..(n - 1) : \E p \in ps : p.owner = h /\ p.pid = k

\* A manager stays in the model while the registry, the legacy slot or a
\* callback of a child that has not exited refers to it.
Referenced(ms, ts, ps) ==
  [h \in {k \in DOMAIN ms :
            k \in DOMAIN ts \/ k = Legacy \/ \E p \in ps : p.owner = k}
     |-> ms[h]]

\* ------------------------------------------------------------------------
\* TerminalRegistry (terminal-registry.ts)
\* ------------------------------------------------------------------------
\* the keys of the Map in insertion order (IDs are inserted in allocation order)
RECURSIVE KeysFrom(_, _)
KeysFrom(ts, n) ==
  IF n > MaxNextId + MaxRegistryNextId THEN <<>>
  ELSE IF ToDecimal(n) \in DOMAIN ts
       THEN <<ToDecimal(n)>> \o KeysFrom(ts, n + 1)
       ELSE KeysFrom(ts, n + 1)

\* getTerminalIds()
getTerminalIds(ts) == KeysFrom(ts, 1)

\* the loop of getLastTerminalId over the keys
RECURSIVE LastIdLoop(_, _)
LastIdLoop(keys, lastId) ==
  IF keys = <<>> THEN lastId
  ELSE LastIdLoop(Tail(keys),
                  IF lastId = Null \/ ParseInt10(Head(keys)) > ParseInt10(lastId)
                  THEN Head(keys) ELSE lastId)

\* a getLastTerminalId that returns the oldest ID in the map
getOldestTerminalId(ts) ==
  IF getTerminalIds(ts) = <<>> THEN Null ELSE Head(getTerminalIds(ts))

\* getLastTerminalId(); Null stands for undefined
getLastTerminalId(ts) == LastIdLoop(getTerminalIds(ts), Null)

\* The server was launched with --cols CliCols --rows CliRows.
CliCols == 2
CliRows == 1

\* a create that numbers a session by the size of the map
createCountingEntries(command, cols, rows, spawnOk) ==
  LET id == ToDecimal(Cardinality(DOMAIN terminals) + 1)
      st == start(NewPtyManager(command,
                                IF cols = 0 THEN CliCols ELSE cols,
                                IF rows = 0 THEN CliRows ELSE rows),
                  Spawn(procs, id, spawnOk))
  IN [id |-> id,
      threw |-> st.threw,
      error |-> st.error,
      nextId |-> nextId + 1,
      terminals |-> (id :> [running |-> ~st.threw, command |-> command]) @@ terminals,
      mgr |-> (id :> st.m) @@ mgr,
      procs |-> IF st.threw THEN procs
                ELSE procs \cup {[owner |-> id, pid |-> st.m.ptyProcess, killed |-> FALSE]},
      emitted |-> IF st.threw THEN <<>>
                  ELSE <<Event("start", id), Event("created", id)>>]

\* create(options): everything it changes, and whether manager.start() threw.
\* cols/rows 0 stand for undefined (the registry's defaults apply).
create(command, cols, rows, spawnOk) ==
  LET id == ToDecimal(nextId)
      st == start(NewPtyManager(command,
                                IF cols = 0 THEN CliCols ELSE cols,
                                IF rows = 0 THEN CliRows ELSE rows),
                  Spawn(procs, id, spawnOk))
  IN [id |-> id,
      threw |-> st.threw,
      error |-> st.error,
      nextId |-> nextId + 1,
      terminals |-> (id :> [running |-> ~st.threw, command |-> command]) @@ terminals,
      mgr |-> (id :> st.m) @@ mgr,
      procs |-> IF st.threw THEN procs
                ELSE procs \cup {[owner |-> id, pid |-> st.m.ptyProcess, killed |-> FALSE]},
      emitted |-> IF st.threw THEN <<>>
                  ELSE <<Event("start", id), Event("created", id)>>]

\* get(id) !== undefined
has(ts, id) == id \in DOMAIN ts

\* list(): the summaries in the Map's order
list(ts, ms) ==
  LET keys == getTerminalIds(ts) IN
  [i \in 1..Len(keys) |->
     [id |-> keys[i], command |-> ts[keys[i]].command,
      running |-> ts[keys[i]].running,
      cols |-> ms[keys[i]].cols, rows |-> ms[keys[i]].rows]]

\* this.emit('killed', { terminalId: id }): the listeners run inside emit;
\* present is what get(id) gives them while the map is ts
Killed(id, ts) ==
  [type |-> "killed", terminalId |-> id, present |-> has(ts, id)]

\* a kill that stops the session and leaves its entry in the map
killKeepingEntry(id) ==
  IF ~has(terminals, id)
  THEN [found |-> FALSE, terminals |-> terminals, mgr |-> mgr, procs |-> procs,
        emitted |-> <<>>]
  ELSE [found |-> TRUE,
        terminals |-> [terminals EXCEPT ![id].running = FALSE],
        mgr |-> [mgr EXCEPT ![id] = stop(@)],
        procs |-> IF StopKills(mgr[id]) THEN KillCurrent(procs, id, mgr[id])
                  ELSE procs,
        emitted |-> <<Killed(id, terminals)>>]

\* a kill that publishes killed for an ID the map does not have
killAnnouncingMissing(id) ==
  IF ~has(terminals, id)
  THEN [found |-> TRUE, terminals |-> terminals, mgr |-> mgr, procs |-> procs,
        emitted |-> <<Killed(id, terminals)>>]
  ELSE [found |-> TRUE,
        terminals |-> [k \in DOMAIN terminals \ {id} |-> terminals[k]],
        mgr |-> [mgr EXCEPT ![id] = stop(@)],
        procs |-> IF StopKills(mgr[id]) THEN KillCurrent(procs, id, mgr[id])
                  ELSE procs,
        emitted |-> <<Killed(id, [k \in DOMAIN terminals \ {id} |-> terminals[k]])>>]

\* kill(id): everything it changes, and its return value
kill(id) ==
  IF ~has(terminals, id)
  THEN [found |-> FALSE, terminals |-> terminals, mgr |-> mgr, procs |-> procs,
        emitted |-> <<>>]
  ELSE [found |-> TRUE,
        terminals |-> [k \in DOMAIN terminals \ {id} |-> terminals[k]],
        mgr |-> [mgr EXCEPT ![id] = stop(@)],
        procs |-> IF StopKills(mgr[id]) THEN KillCurrent(procs, id, mgr[id])
                  ELSE procs,
        emitted |-> <<Killed(id, [k \in DOMAIN terminals \ {id} |-> terminals[k]])>>]

\* killAll(): the loop over the entries from the n-th key on, then clear()
RECURSIVE killAllFrom(_, _)
killAllFrom(keys, acc) ==
  IF keys = <<>> THEN [acc EXCEPT !.terminals = EmptyMap]
  ELSE LET id == Head(keys) IN
       killAllFrom(Tail(keys),
         [terminals |-> [acc.terminals EXCEPT ![id].running = FALSE],
          mgr |-> [acc.mgr EXCEPT ![id] = stop(@)],
          procs |-> IF StopKills(acc.mgr[id])
                    THEN KillCurrent(acc.procs, id, acc.mgr[id]) ELSE acc.procs,
          emitted |-> Append(acc.emitted, Killed(id, acc.terminals))])

killAll ==
  killAllFrom(getTerminalIds(terminals),
              [terminals |-> terminals, mgr |-> mgr, procs |-> procs,
               emitted |-> <<>>])

\* ------------------------------------------------------------------------
\* Tool handlers (index.ts)
\* ------------------------------------------------------------------------
\* resolveTerminalId(terminalId): the ID, or the error it throws
resolveTerminalId(terminalId) ==
  IF terminalId # Omitted
  THEN IF terminalId = Legacy /\ Legacy \in DOMAIN mgr THEN Reply("ok", Legacy)
       ELSE IF ~has(terminals, terminalId) THEN Reply("UnknownSession", Null)
       ELSE Reply("ok", terminalId)
  ELSE IF focusedTerminalId # Null /\ has(terminals, focusedTerminalId)
       THEN Reply("ok", focusedTerminalId)
  ELSE IF getLastTerminalId(terminals) # Null
       THEN Reply("ok", getLastTerminalId(terminals))
  ELSE IF Legacy \in DOMAIN mgr /\ mgr[Legacy].isRunning THEN Reply("ok", Legacy)
  ELSE Reply("NoSession", Null)

\* case 'list_tabs': the focused value of its reply (null when neither the
\* registry nor a running legacy manager gives it a terminal to list)
effectiveFocused ==
  IF DOMAIN terminals = {} /\ ~(Legacy \in DOMAIN mgr /\ mgr[Legacy].isRunning)
  THEN Null
  ELSE IF focusedTerminalId # Null THEN focusedTerminalId
  ELSE IF Legacy \in DOMAIN mgr /\ mgr[Legacy].isRunning THEN Legacy
  ELSE getLastTerminalId(terminals)

\* ------------------------------------------------------------------------
\* Live mirroring (index.ts)
\* ------------------------------------------------------------------------
\* neither --live nor --live-file: no listener is set up, no sink is written
LiveOff ==
  [tty |-> FALSE, file |-> FALSE, renderTimeout |-> FALSE, timers |-> <<>>,
   ops |-> <<>>]

\* getFocusedManager(), for a focus f, a map ts and managers ms; Null for null
getFocusedManager(f, ts, ms) ==
  IF f # Null /\ has(ts, f) THEN f
  ELSE IF getLastTerminalId(ts) # Null THEN getLastTerminalId(ts)
  ELSE IF Legacy \in DOMAIN ms THEN Legacy
  ELSE Null

\* broadcastLiveDisplay(manager): what is written to the sinks of lv
broadcastLiveDisplay(lv, m) ==
  (IF lv.tty THEN <<[op |-> "render", lines |-> m.screenBuffer]>> ELSE <<>>)
  \o (IF lv.file THEN <<[op |-> "write", lines |-> m.screenBuffer]>> ELSE <<>>)

\* the redraw at the head of the request handler, before the switch
ToolCallRedraw ==
  LET h == getFocusedManager(focusedTerminalId, terminals, mgr) IN
  IF (live.tty \/ live.file) /\ h # Null
  THEN broadcastLiveDisplay(live, mgr[h]) ELSE <<>>

\* the 'data' listeners of setupLiveDisplayListeners: the registry's, for the
\* data of terminalId, and the legacy manager's
DataListener(lv, terminalId) ==
  IF ~(lv.tty \/ lv.file) THEN lv
  ELSE IF terminalId = Legacy
  THEN IF focusedTerminalId = Null /\ DOMAIN terminals = {} /\ ~lv.renderTimeout
       THEN [lv EXCEPT !.renderTimeout = TRUE, !.timers = Append(@, "legacy")]
       ELSE lv
  ELSE IF terminalId # (IF focusedTerminalId # Null THEN focusedTerminalId
                        ELSE getLastTerminalId(terminals))
  THEN lv
  ELSE IF lv.renderTimeout THEN lv
  ELSE [lv EXCEPT !.renderTimeout = TRUE, !.timers = Append(@, "focused")]

\* ------------------------------------------------------------------------
\* Inputs
\* ------------------------------------------------------------------------
Commands == {"sh"}

\* cols / rows of a request: 0 when omitted
DimInputs == 0..MaxDim

\* the requests of the server model omit cols and rows
ServerDims == {0}

\* terminal_id arguments: every ID the allocator can produce, one it cannot
\* have produced yet, legacy, and a string that is no ID
IdInputs ==
  {ToDecimal(n) : n \in 1..MaxNextId} \cup {Legacy, <<"x">>}

\* chunks of child output the server model feeds
ServerChunks == {<<"a">>}

\* ------------------------------------------------------------------------
\* The server: initial state and steps
\* ------------------------------------------------------------------------
\* main(): with a command on the command line the legacy manager is created
\* and started before the first request is served.
Init ==
  /\ server = "up"
  /\ nextId = 1
  /\ terminals = EmptyMap
  /\ focusedTerminalId = Null
  /\ \E withLegacy \in BOOLEAN :
       IF withLegacy
       THEN /\ mgr = (Legacy :> start(NewPtyManager("sh", CliCols, CliRows), 1).m)
            /\ procs = {[owner |-> Legacy, pid |-> 1, killed |-> FALSE]}
       ELSE /\ mgr = EmptyMap
            /\ procs = {}
  /\ emitted = <<>>
  /\ result = NoResult
  /\ pending = EmptyMap
  /\ live = LiveOff

\* a create_process that focuses the new session only when nothing is focused
CreateProcessKeepingFocus(command, cols, rows, spawnOk) ==
  /\ server = "up"
  /\ nextId < MaxNextId
  /\ Cardinality(procs) < MaxProcs
  /\ LET c == create(command, cols, rows, spawnOk) IN
     /\ nextId' = c.nextId
     /\ terminals' = c.terminals
     /\ procs' = c.procs
     /\ mgr' = Referenced(c.mgr, c.terminals, c.procs)
     /\ emitted' = c.emitted
     /\ focusedTerminalId' =
          IF c.threw \/ focusedTerminalId # Null THEN focusedTerminalId ELSE c.id
     /\ result' = Started("create_process", c.error, c.id, command)
     /\ live' = [live EXCEPT !.ops =
                   ToolCallRedraw \o
                   (IF c.threw THEN <<>> ELSE broadcastLiveDisplay(live, c.mgr[c.id]))]
  /\ UNCHANGED <<server, pending>>

\* case 'create_process'
CreateProcess(command, cols, rows, spawnOk) ==
  /\ server = "up"
  /\ nextId < MaxNextId
  /\ Cardinality(procs) < MaxProcs
  /\ LET c == create(command, cols, rows, spawnOk) IN
     /\ nextId' = c.nextId
     /\ terminals' = c.terminals
     /\ procs' = c.procs
     /\ mgr' = Referenced(c.mgr, c.terminals, c.procs)
     /\ emitted' = c.emitted
     /\ focusedTerminalId' = IF c.threw THEN focusedTerminalId ELSE c.id
     /\ result' = Started("create_process", c.error, c.id, command)
     /\ live' = [live EXCEPT !.ops =
                   ToolCallRedraw \o
                   (IF c.threw THEN <<>> ELSE broadcastLiveDisplay(live, c.mgr[c.id]))]
  /\ UNCHANGED <<server, pending>>

\* case 'run_tui'
RunTui(command, cols, rows, spawnOk) ==
  /\ server = "up"
  /\ IF focusedTerminalId # Null /\ has(terminals, focusedTerminalId)
     THEN LET id == focusedTerminalId
              ps == IF StopKills(mgr[id]) THEN KillCurrent(procs, id, mgr[id])
                    ELSE procs
              r == restart(mgr[id],
                           [command |-> command, cols |-> cols, rows |-> rows],
                           Spawn(ps, id, spawnOk))
          IN /\ Cardinality(procs) < MaxProcs
             /\ procs' = IF r.threw THEN ps
                         ELSE ps \cup {[owner |-> id, pid |-> r.m.ptyProcess,
                                        killed |-> FALSE]}
             /\ mgr' = [mgr EXCEPT ![id] = r.m]
             /\ terminals' = IF r.threw THEN terminals
                             ELSE [terminals EXCEPT ![id].running = TRUE]
             /\ emitted' = IF r.threw THEN <<>> ELSE <<Event("start", id)>>
             /\ result' = Started("run_tui", r.error, id, command)
             /\ live' = [live EXCEPT !.ops =
                           ToolCallRedraw \o
                           (IF r.threw THEN <<>> ELSE broadcastLiveDisplay(live, r.m))]
             /\ UNCHANGED <<nextId, focusedTerminalId>>
     ELSE /\ nextId < MaxNextId
          /\ Cardinality(procs) < MaxProcs
          /\ LET c == create(command, cols, rows, spawnOk) IN
             /\ nextId' = c.nextId
             /\ terminals' = c.terminals
             /\ procs' = c.procs
             /\ mgr' = Referenced(c.mgr, c.terminals, c.procs)
             /\ emitted' = c.emitted
             /\ focusedTerminalId' = IF c.threw THEN focusedTerminalId ELSE c.id
             /\ result' = Started("run_tui", c.error, c.id, command)
             /\ live' = [live EXCEPT !.ops =
                           ToolCallRedraw \o
                           (IF c.threw THEN <<>>
                            ELSE broadcastLiveDisplay(live, c.mgr[c.id]))]
  /\ UNCHANGED <<server, pending>>

\* case 'stop_tui'
StopTui ==
  /\ server = "up"
  /\ IF \/ focusedTerminalId = Null
        \/ ~has(terminals, focusedTerminalId)
        \/ ~mgr[focusedTerminalId].isRunning
     THEN /\ emitted' = <<>>
          /\ result' = Result("stop_tui", "none", Null, <<>>)
          /\ UNCHANGED <<terminals, mgr, procs, focusedTerminalId>>
     ELSE LET k == kill(focusedTerminalId) IN
          /\ terminals' = k.terminals
          /\ procs' = k.procs
          /\ mgr' = Referenced(k.mgr, k.terminals, k.procs)
          /\ emitted' = k.emitted
          /\ focusedTerminalId' = getLastTerminalId(k.terminals)
          /\ result' = Result("stop_tui", "none", focusedTerminalId, <<>>)
  /\ live' = [live EXCEPT !.ops = ToolCallRedraw]
  /\ UNCHANGED <<server, nextId, pending>>

\* a kill_process that leaves the focus where it was
KillProcessKeepingFocus(terminal_id) ==
  /\ server = "up"
  /\ IF ~has(terminals, terminal_id)
     THEN /\ emitted' = <<>>
          /\ result' = Result("kill_process", "UnknownSession", Null, <<>>)
          /\ UNCHANGED <<terminals, mgr, procs, focusedTerminalId>>
     ELSE LET k == kill(terminal_id) IN
          /\ terminals' = k.terminals
          /\ procs' = k.procs
          /\ mgr' = Referenced(k.mgr, k.terminals, k.procs)
          /\ emitted' = k.emitted
          /\ result' = Result("kill_process", "none", terminal_id, <<>>)
          /\ focusedTerminalId' = focusedTerminalId
  /\ live' = [live EXCEPT !.ops = ToolCallRedraw]
  /\ UNCHANGED <<server, nextId, pending>>

\* case 'kill_process'
KillProcess(terminal_id) ==
  /\ server = "up"
  /\ IF ~has(terminals, terminal_id)
     THEN /\ emitted' = <<>>
          /\ result' = Result("kill_process", "UnknownSession", Null, <<>>)
          /\ UNCHANGED <<terminals, mgr, procs, focusedTerminalId>>
     ELSE LET k == kill(terminal_id) IN
          /\ terminals' = k.terminals
          /\ procs' = k.procs
          /\ mgr' = Referenced(k.mgr, k.terminals, k.procs)
          /\ emitted' = k.emitted
          /\ result' = Result("kill_process", "none", terminal_id, <<>>)
          /\ focusedTerminalId' =
               IF focusedTerminalId = terminal_id
               THEN getLastTerminalId(k.terminals) ELSE focusedTerminalId
  /\ live' = [live EXCEPT !.ops = ToolCallRedraw]
  /\ UNCHANGED <<server, nextId, pending>>

\* The onData callback of child p runs with a chunk; the registry's forwarder
\* republishes the manager's 'data' event.
ChildData(p, data) ==
  /\ server = "up"
  /\ p \in procs
  /\ Len(mgr[p.owner].rawBuffer) + Len(data) <= MaxRaw
  /\ LET d == onData(mgr[p.owner], data) IN
     /\ mgr' = [mgr EXCEPT ![p.owner] = d.m]
     /\ server' = IF d.threw THEN "crashed" ELSE server
     /\ emitted' = IF d.threw \/ p.owner = Legacy THEN <<>>
                   ELSE <<Event("data", p.owner)>>
     /\ live' = IF d.threw THEN [live EXCEPT !.ops = <<>>]
                ELSE [DataListener(live, p.owner) EXCEPT !.ops = <<>>]
  /\ Len(live'.timers) <= MaxTimers
  /\ result' = NoResult
  /\ UNCHANGED <<nextId, terminals, focusedTerminalId, procs, pending>>

\* Child p exits: its onExit callback runs; the registry's forwarder clears
\* info.running and republishes the 'exit' event.
ChildExit(p) ==
  /\ server = "up"
  /\ p \in procs
  /\ procs' = procs \ {p}
  /\ terminals' = IF has(terminals, p.owner)
                  THEN [terminals EXCEPT ![p.owner].running = FALSE]
                  ELSE terminals
  /\ mgr' = Referenced([mgr EXCEPT ![p.owner] = onExit(@)], terminals', procs')
  /\ emitted' = IF p.owner = Legacy THEN <<>> ELSE <<Event("exit", p.owner)>>
  /\ LET h == getFocusedManager(focusedTerminalId, terminals, mgr) IN
     live' = [live EXCEPT !.ops =
                IF \/ ~(live.tty \/ live.file)
                   \/ h = Null
                   \/ (p.owner = Legacy /\
                       ~(focusedTerminalId = Null /\ DOMAIN terminals = {}))
                THEN <<>>
                ELSE broadcastLiveDisplay(live, mgr[h])]
  /\ result' = NoResult
  /\ UNCHANGED <<server, nextId, focusedTerminalId, pending>>

\* process.on('SIGINT' / 'SIGTERM')
Shutdown ==
  /\ server = "up"
  /\ LET k == killAll
         ms == IF Legacy \in DOMAIN k.mgr
               THEN [k.mgr EXCEPT ![Legacy] = stop(@)] ELSE k.mgr
         ps == IF Legacy \in DOMAIN k.mgr /\ StopKills(k.mgr[Legacy])
               THEN KillCurrent(k.procs, Legacy, k.mgr[Legacy]) ELSE k.procs
     IN /\ terminals' = k.terminals
        /\ procs' = ps
        /\ mgr' = Referenced(ms, k.terminals, ps)
        /\ emitted' = k.emitted
  /\ server' = "exited"
  /\ result' = NoResult
  /\ live' = [live EXCEPT !.ops =
                IF live.tty THEN <<[op |-> "cleanup", lines |-> <<>>]>> ELSE <<>>]
  /\ UNCHANGED <<nextId, focusedTerminalId, pending>>

Next ==
  \/ \E command \in Commands, cols \in ServerDims, rows \in ServerDims, spawnOk \in BOOLEAN :
       \/ CreateProcess(command, cols, rows, spawnOk)
       \/ RunTui(command, cols, rows, spawnOk)
  \/ StopTui
  \/ \E terminal_id \in IdInputs : KillProcess(terminal_id)
  \/ \E p \in procs, data \in ServerChunks : ChildData(p, data)
  \/ \E p \in procs : ChildExit(p)
  \/ Shutdown

Spec == Init /\ [][Next]_vars

\* The server's steps that touch the registry map and the focus: every step
\* but the delivery of child output (which reads and writes one PtyManager's
\* buffers only).
NextFocus ==
  \/ \E command \in Commands, cols \in ServerDims, rows \in ServerDims, spawnOk \in BOOLEAN :
       \/ CreateProcess(command, cols, rows, spawnOk)
       \/ RunTui(command, cols, rows, spawnOk)
  \/ StopTui
  \/ \E terminal_id \in IdInputs : KillProcess(terminal_id)
  \/ \E p \in procs : ChildExit(p)
  \/ Shutdown

SpecFocus == Init /\ [][NextFocus]_vars

\* The same steps with run_tui given one of two commands.
RunCommands == {"sh", "vi"}

NextRun ==
  \/ \E command \in RunCommands, spawnOk \in BOOLEAN : RunTui(command, 0, 0, spawnOk)
  \/ \E spawnOk \in BOOLEAN : CreateProcess("sh", 0, 0, spawnOk)
  \/ StopTui
  \/ \E terminal_id \in IdInputs : KillProcess(terminal_id)
  \/ \E p \in procs : ChildExit(p)
  \/ Shutdown

SpecRun == Init /\ [][NextRun]_vars

\* ------------------------------------------------------------------------
\* The server with live mirroring
\* ------------------------------------------------------------------------
\* main() with --live and / or --live-file: the legacy manager's screen is
\* drawn once before the listeners are set up
InitLive ==
  /\ server = "up"
  /\ nextId = 1
  /\ terminals = EmptyMap
  /\ focusedTerminalId = Null
  /\ emitted = <<>>
  /\ result = NoResult
  /\ pending = EmptyMap
  /\ \E withLegacy \in BOOLEAN, tty \in BOOLEAN, file \in BOOLEAN :
       LET lv == [LiveOff EXCEPT !.tty = tty, !.file = file] IN
       IF withLegacy
       THEN /\ mgr = (Legacy :> start(NewPtyManager("sh", CliCols, CliRows), 1).m)
            /\ procs = {[owner |-> Legacy, pid |-> 1, killed |-> FALSE]}
            /\ live = [lv EXCEPT !.ops = broadcastLiveDisplay(lv, mgr[Legacy])]
       ELSE /\ mgr = EmptyMap
            /\ procs = {}
            /\ live = lv

\* the callback of the oldest setTimeout of the live renderer runs
RenderTick ==
  /\ server = "up"
  /\ live.timers # <<>>
  /\ LET h == IF Head(live.timers) = "legacy" THEN Legacy
              ELSE getFocusedManager(focusedTerminalId, terminals, mgr) IN
     live' = [live EXCEPT !.renderTimeout = FALSE,
                          !.timers = Tail(@),
                          !.ops = IF h \in DOMAIN mgr
                                  THEN broadcastLiveDisplay(live, mgr[h])
                                  ELSE <<>>]
  /\ emitted' = <<>>
  /\ result' = NoResult
  /\ UNCHANGED <<server, nextId, terminals, focusedTerminalId, mgr, procs, pending>>

NextLive ==
  \/ \E cols \in {0, 1}, spawnOk \in BOOLEAN : CreateProcess("sh", cols, 0, spawnOk)
  \/ \E terminal_id \in IdInputs : KillProcess(terminal_id)
  \/ \E p \in procs, data \in ServerChunks : ChildData(p, data)
  \/ \E p \in procs : ChildExit(p)
  \/ RenderTick
  \/ Shutdown

SpecLive == InitLive /\ [][NextLive]_vars

\* ------------------------------------------------------------------------
\* The TerminalRegistry on its own: create / kill / killAll called directly
\* ------------------------------------------------------------------------
InitRegistry ==
  /\ server = "up"
  /\ nextId = 1
  /\ terminals = EmptyMap
  /\ focusedTerminalId = Null
  /\ mgr = EmptyMap
  /\ procs = {}
  /\ emitted = <<>>
  /\ result = NoResult
  /\ pending = EmptyMap
  /\ live = LiveOff

\* registry.create(options)
Create(command, cols, rows, spawnOk) ==
  /\ nextId < MaxRegistryNextId
  /\ Cardinality(DOMAIN mgr) < MaxTerminals
  /\ LET c == create(command, cols, rows, spawnOk) IN
     /\ nextId' = c.nextId
     /\ terminals' = c.terminals
     /\ procs' = c.procs
     /\ mgr' = Referenced(c.mgr, c.terminals, c.procs)
     /\ emitted' = c.emitted
  /\ UNCHANGED <<server, focusedTerminalId, result, pending, live>>

\* registry.kill(id)
Kill(id) ==
  /\ LET k == kill(id) IN
     /\ terminals' = k.terminals
     /\ procs' = k.procs
     /\ mgr' = Referenced(k.mgr, k.terminals, k.procs)
     /\ emitted' = k.emitted
  /\ UNCHANGED <<server, nextId, focusedTerminalId, result, pending, live>>

\* registry.killAll()
KillAll ==
  /\ LET k == killAll IN
     /\ terminals' = k.terminals
     /\ procs' = k.procs
     /\ mgr' = Referenced(k.mgr, k.terminals, k.procs)
     /\ emitted' = k.emitted
  /\ UNCHANGED <<server, nextId, focusedTerminalId, result, pending, live>>

RegistryIds == {ToDecimal(n) : n \in 1..MaxRegistryNextId}

NextRegistry ==
  \/ \E spawnOk \in BOOLEAN : Create("sh", 0, 0, spawnOk)
  \/ \E id \in RegistryIds : Kill(id)
  \/ KillAll
  \/ \E p \in procs : ChildExit(p)

SpecRegistry == InitRegistry /\ [][NextRegistry]_vars

\* ------------------------------------------------------------------------
\* One PtyManager on its own, driven through its public methods
\* ------------------------------------------------------------------------
Standalone == <<"pty">>

\* chunks of child output: printable and control characters, cursor moves,
\* erases, insert / delete, reset
PtyChunks ==
  {<<"a">>, <<LF>>, <<CR>>, <<BS>>, <<TAB>>, <<ESC, "c">>}
  \cup {<<ESC, "[", f>> : f \in {"H", "A", "B", "C", "D", "J", "K", "@", "P", "m"}}
  \cup {<<ESC, "[", n, f>> : n \in {"1", "2"}, f \in {"J", "K"}}

InitPty ==
  /\ server = "up"
  /\ nextId = 1
  /\ terminals = EmptyMap
  /\ focusedTerminalId = Null
  /\ \E command \in Commands, cols \in 1..MaxDim, rows \in 1..MaxDim :
       mgr = (Standalone :> NewPtyManager(command, cols, rows))
  /\ procs = {}
  /\ emitted = <<>>
  /\ result = NoResult
  /\ pending = EmptyMap
  /\ live = LiveOff

\* manager.start()
PtyStart(spawnOk) ==
  /\ server = "up"
  /\ Cardinality(procs) < MaxProcs
  /\ LET st == start(mgr[Standalone], Spawn(procs, Standalone, spawnOk)) IN
     /\ mgr' = [mgr EXCEPT ![Standalone] = st.m]
     /\ procs' = IF st.threw THEN procs
                 ELSE procs \cup {[owner |-> Standalone, pid |-> st.m.ptyProcess,
                                   killed |-> FALSE]}
  /\ result' = NoResult
  /\ UNCHANGED <<server, nextId, terminals, focusedTerminalId, emitted, pending, live>>

\* manager.stop()
PtyStop ==
  /\ server = "up"
  /\ mgr' = [mgr EXCEPT ![Standalone] = stop(@)]
  /\ procs' = IF StopKills(mgr[Standalone])
              THEN KillCurrent(procs, Standalone, mgr[Standalone]) ELSE procs
  /\ result' = Result("stop", "none", Null, <<>>)
  /\ UNCHANGED <<server, nextId, terminals, focusedTerminalId, emitted, pending, live>>

\* manager.restart(options)
PtyRestart(o, spawnOk) ==
  /\ server = "up"
  /\ Cardinality(procs) < MaxProcs
  /\ LET ps == IF StopKills(mgr[Standalone])
               THEN KillCurrent(procs, Standalone, mgr[Standalone]) ELSE procs
         r == restart(mgr[Standalone], o, Spawn(ps, Standalone, spawnOk))
     IN /\ mgr' = [mgr EXCEPT ![Standalone] = r.m]
        /\ procs' = IF r.threw THEN ps
                    ELSE ps \cup {[owner |-> Standalone, pid |-> r.m.ptyProcess,
                                   killed |-> FALSE]}
  /\ result' = NoResult
  /\ UNCHANGED <<server, nextId, terminals, focusedTerminalId, emitted, pending, live>>

\* manager.resize(cols, rows)
PtyResize(cols, rows) ==
  /\ server = "up"
  /\ mgr' = [mgr EXCEPT ![Standalone] = resize(@, cols, rows)]
  /\ result' = NoResult
  /\ UNCHANGED <<server, nextId, terminals, focusedTerminalId, procs, emitted, pending, live>>

\* the onData callback of child p; an incarnation receives at most maxRaw
\* characters
PtyData(p, data, maxRaw) ==
  /\ server = "up"
  /\ p \in procs
  /\ Len(mgr[p.owner].rawBuffer) + Len(data) <= maxRaw
  /\ LET d == onData(mgr[p.owner], data) IN
     /\ mgr' = [mgr EXCEPT ![p.owner] = d.m]
     /\ server' = IF d.threw THEN "crashed" ELSE server
  /\ result' = NoResult
  /\ UNCHANGED <<nextId, terminals, focusedTerminalId, procs, emitted, pending, live>>

\* the onExit callback of child p
PtyExit(p) ==
  /\ server = "up"
  /\ p \in procs
  /\ procs' = procs \ {p}
  /\ mgr' = [mgr EXCEPT ![p.owner] = onExit(@)]
  /\ result' = NoResult
  /\ UNCHANGED <<server, nextId, terminals, focusedTerminalId, emitted, pending, live>>

\* In this model pty.spawn always returns a child.
NextPty ==
  \/ PtyStart(TRUE)
  \/ PtyStop
  \/ \E cols \in DimInputs, rows \in DimInputs :
       PtyRestart([command |-> Absent, cols |-> cols, rows |-> rows], TRUE)
  \/ \E cols \in 1..MaxDim, rows \in 1..MaxDim : PtyResize(cols, rows)
  \/ \E p \in procs, data \in PtyChunks : PtyData(p, data, MaxPtyRaw)
  \/ \E p \in procs : PtyExit(p)

SpecPty == InitPty /\ [][NextPty]_vars

\* ------------------------------------------------------------------------
\* One PtyManager whose children are spawned with an environment
\* ------------------------------------------------------------------------
\* the environments that give the value v to some of three names
Envs(v) == {[n \in names |-> v] : names \in SUBSET {"TERM", "COLORTERM", "PATH"}}

InitEnv ==
  /\ server = "up"
  /\ nextId = 1
  /\ terminals = EmptyMap
  /\ focusedTerminalId = Null
  /\ \E env \in Envs("recipe") :
       mgr = (Standalone :>
                [NewPtyManager("sh", 1, 1) EXCEPT
                   !.options = [command |-> "sh", cols |-> 1, rows |-> 1,
                                env |-> env]])
  /\ procs = {}
  /\ emitted = <<>>
  /\ result = NoResult
  /\ pending = EmptyMap
  /\ live = LiveOff

\* manager.start() while process.env is processEnv; the child records the
\* process.env of that moment (inherited) and the env pty.spawn was given
EnvStart(processEnv) ==
  /\ server = "up"
  /\ Cardinality(procs) < MaxProcs
  /\ LET st == start(mgr[Standalone], Spawn(procs, Standalone, TRUE)) IN
     /\ mgr' = [mgr EXCEPT ![Standalone] = st.m]
     /\ procs' = IF st.threw THEN procs
                 ELSE procs \cup
                        {[owner |-> Standalone, pid |-> st.m.ptyProcess,
                          killed |-> FALSE, inherited |-> processEnv,
                          env |-> spawnEnv(processEnv, st.m.options.env)]}
  /\ result' = NoResult
  /\ UNCHANGED <<server, nextId, terminals, focusedTerminalId, emitted, pending, live>>

\* manager.restart(o) while process.env is processEnv
EnvRestart(o, processEnv) ==
  /\ server = "up"
  /\ Cardinality(procs) < MaxProcs
  /\ LET ps == IF StopKills(mgr[Standalone])
               THEN KillCurrent(procs, Standalone, mgr[Standalone]) ELSE procs
         r == restart(mgr[Standalone], o, Spawn(ps, Standalone, TRUE))
     IN /\ mgr' = [mgr EXCEPT ![Standalone] = r.m]
        /\ procs' = IF r.threw THEN ps
                    ELSE ps \cup
                           {[owner |-> Standalone, pid |-> r.m.ptyProcess,
                             killed |-> FALSE, inherited |-> processEnv,
                             env |-> spawnEnv(processEnv, r.m.options.env)]}
  /\ result' = NoResult
  /\ UNCHANGED <<server, nextId, terminals, focusedTerminalId, emitted, pending, live>>

NextEnv ==
  \/ \E processEnv \in Envs("server") : EnvStart(processEnv)
  \/ \E processEnv \in Envs("server") :
       EnvRestart([command |-> Absent, cols |-> 0, rows |-> 0], processEnv)
  \/ \E env \in Envs("recipe"), processEnv \in Envs("server") :
       EnvRestart([command |-> Absent, cols |-> 0, rows |-> 0, env |-> env],
                  processEnv)
  \/ PtyStop
  \/ \E p \in procs : PtyExit(p)

SpecEnv == InitEnv /\ [][NextEnv]_vars

\* ------------------------------------------------------------------------
\* One PtyManager whose children carry the window size of their PTY
\* ------------------------------------------------------------------------
\* manager.start(): pty.spawn is given this.cols and this.rows
SizeStart ==
  /\ server = "up"
  /\ Cardinality(procs) < MaxProcs
  /\ LET st == start(mgr[Standalone], Spawn(procs, Standalone, TRUE)) IN
     /\ mgr' = [mgr EXCEPT ![Standalone] = st.m]
     /\ procs' = IF st.threw THEN procs
                 ELSE procs \cup
                        {[owner |-> Standalone, pid |-> st.m.ptyProcess,
                          killed |-> FALSE, cols |-> st.m.cols, rows |-> st.m.rows]}
  /\ result' = NoResult
  /\ UNCHANGED <<server, nextId, terminals, focusedTerminalId, emitted, pending, live>>

\* manager.restart(o)
SizeRestart(o) ==
  /\ server = "up"
  /\ Cardinality(procs) < MaxProcs
  /\ LET ps == IF StopKills(mgr[Standalone])
               THEN KillCurrent(procs, Standalone, mgr[Standalone]) ELSE procs
         r == restart(mgr[Standalone], o, Spawn(ps, Standalone, TRUE))
     IN /\ mgr' = [mgr EXCEPT ![Standalone] = r.m]
        /\ procs' = IF r.threw THEN ps
                    ELSE ps \cup
                           {[owner |-> Standalone, pid |-> r.m.ptyProcess,
                             killed |-> FALSE, cols |-> r.m.cols, rows |-> r.m.rows]}
  /\ result' = NoResult
  /\ UNCHANGED <<server, nextId, terminals, focusedTerminalId, emitted, pending, live>>

\* manager.resize(cols, rows): ptyProcess.resize is called under the guard
\* ptyProcess && isRunning
SizeResize(cols, rows) ==
  /\ server = "up"
  /\ mgr' = [mgr EXCEPT ![Standalone] = resize(@, cols, rows)]
  /\ procs' = IF mgr[Standalone].ptyProcess # 0 /\ mgr[Standalone].isRunning
              THEN {IF p.pid = mgr[Standalone].ptyProcess
                    THEN [p EXCEPT !.cols = cols, !.rows = rows] ELSE p : p \in procs}
              ELSE procs
  /\ result' = NoResult
  /\ UNCHANGED <<server, nextId, terminals, focusedTerminalId, emitted, pending, live>>

\* the sizes asked for are the smallest and the largest
NextSize ==
  \/ SizeStart
  \/ PtyStop
  \/ \E cols \in {0, MaxDim}, rows \in {0, MaxDim} :
       SizeRestart([command |-> Absent, cols |-> cols, rows |-> rows])
  \/ \E cols \in {1, MaxDim}, rows \in {1, MaxDim} : SizeResize(cols, rows)
  \/ \E p \in procs : PtyExit(p)

SpecSize == InitPty /\ [][NextSize]_vars

\* ------------------------------------------------------------------------
\* One PtyManager with a full recipe, restarted with partial recipes
\* ------------------------------------------------------------------------
\* Partial<PtyOptions>: command not given, given or empty; cols / rows not
\* given (0) or given; args, cwd and env each given or not
RecipeInputs ==
  {Spread([command |-> command, cols |-> cols, rows |-> rows],
          [n \in names |-> "new"]) :
     command \in {Absent, "", "vi"}, cols \in {0, MaxDim}, rows \in {0, MaxDim},
     names \in SUBSET {"args", "cwd", "env"}}

InitRecipe ==
  /\ server = "up"
  /\ nextId = 1
  /\ terminals = EmptyMap
  /\ focusedTerminalId = Null
  /\ mgr = (Standalone :>
              [NewPtyManager("sh", 1, 1) EXCEPT
                 !.options = [command |-> "sh", args |-> "old", cwd |-> "old",
                              env |-> "old", cols |-> 1, rows |-> 1]])
  /\ procs = {}
  /\ emitted = <<>>
  /\ result = NoResult
  /\ pending = EmptyMap
  /\ live = LiveOff

\* the restarts that are made give one of args, cwd and env, all or none of
\* them, and both of cols and rows or neither
RecipeSteps ==
  {o \in RecipeInputs :
     /\ Cardinality(DOMAIN o \cap {"args", "cwd", "env"}) # 2
     /\ (o.cols = 0) = (o.rows = 0)}

NextRecipe ==
  \/ PtyStart(TRUE)
  \/ PtyStop
  \/ \E o \in RecipeSteps : PtyRestart(o, TRUE)
  \/ \E p \in procs : PtyData(p, <<"a">>, MaxRaw)
  \/ \E p \in procs : PtyExit(p)

SpecRecipe == InitRecipe /\ [][NextRecipe]_vars

\* ------------------------------------------------------------------------
\* One PtyManager that is started once and resized while its child writes
\* ------------------------------------------------------------------------
\* line feed, a printable character, insert / delete character, erase line
OutputChunks ==
  {<<LF>>, <<"a">>, <<ESC, "[", "@">>, <<ESC, "[", "P">>, <<ESC, "[", "2", "K">>}

NextOutput ==
  \/ PtyStart(TRUE)
  \/ \E cols \in 1..MaxDim, rows \in 1..MaxDim : PtyResize(cols, rows)
  \/ \E p \in procs, data \in OutputChunks : PtyData(p, data, MaxOutputRaw)
  \/ \E p \in procs : PtyExit(p)

SpecOutput == InitPty /\ [][NextOutput]_vars

\* ------------------------------------------------------------------------
\* One PtyManager and its input methods
\* ------------------------------------------------------------------------
\* manager.typeText(text): the data goes to the child ptyProcess refers to
PtyTypeText(text) ==
  /\ server = "up"
  /\ LET t == typeText(mgr[Standalone], text) IN
     result' = Result("typeText", t.error, Null,
                      [i \in 1..Len(t.written) |->
                         [owner |-> Standalone, pid |-> mgr[Standalone].ptyProcess,
                          data |-> t.written[i]]])
  /\ UNCHANGED <<server, nextId, terminals, focusedTerminalId, mgr, procs, emitted,
                 pending, live>>

\* manager.pressKey(key)
PtyPressKey(key, rejects) ==
  /\ server = "up"
  /\ LET t == pressKey(mgr[Standalone], key, rejects) IN
     result' = Result("pressKey", t.error, Null,
                      [i \in 1..Len(t.written) |->
                         [owner |-> Standalone, pid |-> mgr[Standalone].ptyProcess,
                          data |-> t.written[i]]])
  /\ UNCHANGED <<server, nextId, terminals, focusedTerminalId, mgr, procs, emitted,
                 pending, live>>

NextKeys ==
  \/ PtyStart(TRUE)
  \/ PtyStop
  \/ PtyRestart([command |-> Absent, cols |-> 0, rows |-> 0], TRUE)
  \/ \E p \in procs : PtyExit(p)
  \/ \E text \in TextInputs : PtyTypeText(text)
  \/ \E key \in KeyInputs, rejects \in BOOLEAN : PtyPressKey(key, rejects)

SpecKeys == InitPty /\ [][NextKeys]_vars

\* ------------------------------------------------------------------------
\* The parser fed one output stream in two ways: manager Whole receives it
\* as one chunk, manager Split receives it cut in two inside an escape
\* sequence.
\* ------------------------------------------------------------------------
Whole == <<"whole">>
Split == <<"split">>

\* escape sequences: CSI with and without parameters, reset, save cursor,
\* OSC ended by BEL and by ESC \, charset designation
EscapeSequences ==
  {<<ESC, "[", "2", "J">>, <<ESC, "[", "1", ";", "2", "H">>, <<ESC, "[", "K">>,
   <<ESC, "c">>, <<ESC, "7">>, <<ESC, "]", "0", ";", "t", BEL>>,
   <<ESC, "]", "t", ESC, "\\">>, <<ESC, "(", "B">>}

\* text before and after the escape sequence
Texts == {<<>>, <<"a">>}

InitParse ==
  /\ server = "up"
  /\ nextId = 1
  /\ terminals = EmptyMap
  /\ focusedTerminalId = Null
  /\ \E cols \in 1..MaxDim, rows \in 1..MaxDim :
       mgr = [h \in {Whole, Split} |-> start(NewPtyManager("sh", cols, rows), 1).m]
  /\ procs = {[owner |-> h, pid |-> 1, killed |-> FALSE] : h \in {Whole, Split}}
  /\ emitted = <<>>
  /\ result = NoResult
  /\ \E pre \in Texts, esc \in EscapeSequences, post \in Texts :
       \E cut \in 1..(Len(esc) - 1) :
         pending = (Whole :> <<pre \o esc \o post>>)
                   @@ (Split :> <<pre \o SubSeq(esc, 1, cut),
                                  SubSeq(esc, cut + 1, Len(esc)) \o post>>)
  /\ live = LiveOff

\* the PTY hands manager h its next chunk
Deliver(h) ==
  /\ server = "up"
  /\ pending[h] # <<>>
  /\ LET d == onData(mgr[h], Head(pending[h])) IN
     /\ mgr' = [mgr EXCEPT ![h] = d.m]
     /\ server' = IF d.threw THEN "crashed" ELSE server
  /\ pending' = [pending EXCEPT ![h] = Tail(@)]
  /\ UNCHANGED <<nextId, terminals, focusedTerminalId, procs, emitted, result, live>>

NextParse == \E h \in {Whole, Split} : Deliver(h)

SpecParse == InitParse /\ [][NextParse]_vars

\* ------------------------------------------------------------------------
\* One PtyManager whose child writes a fixed stream, chunk by chunk
\* ------------------------------------------------------------------------
\* CSI sequences whose final character changes neither grid nor cursor when
\* handleCSI sees it: SGR, scrolling region, set / reset mode with and without
\* the private marker, a sequence with an intermediate character, a device
\* status request, a final character that is no letter
CsiSamples ==
  {<<ESC, "[", "m">>, <<ESC, "[", "1", ";", "3", "1", "m">>,
   <<ESC, "[", "1", ";", "2", "r">>, <<ESC, "[", "4", "h">>, <<ESC, "[", "4", "l">>,
   <<ESC, "[", "5", "n">>, <<ESC, "[", "?", "2", "5", "h">>,
   <<ESC, "[", "?", "2", "5", "l">>, <<ESC, "[", "0", " ", "q">>,
   <<ESC, "[", "2", "~">>}

\* the streams: a size and the chunks written under it
\*   on 80 x 24: clear, home, Hello LF World LF
\*   on 10 x 3:  35 letters, one per chunk
\*   on 10 x 3:  29 X in three chunks (every cell but the last), a cursor
\*               position, an erase
\*   on 3 x 2:   a, then a CSI sample followed by b
Scripts ==
  {[cols |-> 80, rows |-> 24,
    chunks |-> <<<<ESC, "[", "2", "J">>, <<ESC, "[", "H">>, <<"H">>, <<"e">>,
                 <<"l">>, <<"l">>, <<"o">>, <<LF>>, <<"W">>, <<"o">>, <<"r">>,
                 <<"l">>, <<"d">>, <<LF>>>>],
   [cols |-> 10, rows |-> 3,
    chunks |-> [i \in 1..35 |->
                  <<<<"A","B","C","D","E","F","G","H","I","J","K","L","M","N",
                      "O","P","Q","R","S","T","U","V","W","X","Y","Z","a","b",
                      "c","d","e","f","g","h","i">>[i]>>]]}
  \cup {[cols |-> 10, rows |-> 3,
         chunks |-> <<[i \in 1..10 |-> "X"], [i \in 1..10 |-> "X"],
                      [i \in 1..9 |-> "X"],
                      <<ESC, "[">> \o ToDecimal(r) \o <<";">> \o ToDecimal(c)
                        \o <<"H">>,
                      <<ESC, "[">> \o mode \o <<final>>>>]
          : r \in 1..3, c \in 1..10,
            mode \in {<<>>, <<"0">>, <<"1">>, <<"2">>, <<"3">>},
            final \in {"J", "K"}}
  \cup {[cols |-> 3, rows |-> 2, chunks |-> <<<<"a">>, csi \o <<"b">>>>]
          : csi \in CsiSamples}

InitScript ==
  /\ server = "up"
  /\ nextId = 1
  /\ terminals = EmptyMap
  /\ focusedTerminalId = Null
  /\ procs = {[owner |-> Standalone, pid |-> 1, killed |-> FALSE]}
  /\ emitted = <<>>
  /\ result = NoResult
  /\ live = LiveOff
  /\ \E script \in Scripts :
       /\ mgr = (Standalone :>
                   start(NewPtyManager("sh", script.cols, script.rows), 1).m)
       /\ pending = (Standalone :> script.chunks)

NextScript == Deliver(Standalone)

SpecScript == InitScript /\ [][NextScript]_vars

\* what getScreen() returns
getScreen(m) ==
  [lines |-> m.screenBuffer, cursorRow |-> m.cursorRow, cursorCol |-> m.cursorCol,
   cols |-> m.cols, rows |-> m.rows]

\* ========================================================================
\* Properties
\* ========================================================================
\* the IDs the allocator has handed out so far
Allocated(n) == {ToDecimal(k) : k \in 1..(n - 1)}

\* the events of a step's output
Events(es) == {es[i] : i \in 1..Len(es)}

\* C1: for every session in the registry the running flag is true exactly
\* when the child most recently spawned for it is alive.
C1_RunningIffChildAlive ==
  \A id \in DOMAIN terminals : mgr[id].isRunning <=> ChildAlive(id)

\* C2: a running session whose current child stays alive through a step, and
\* is neither stopped nor replaced in it, still accepts type_text / press_key
\* after the step - whatever notification of an earlier child the step
\* delivers.
C2_RestartStaysRunning ==
  [][\A id \in DOMAIN terminals :
       ( /\ id \in DOMAIN terminals'
         /\ ~NotRunning(mgr[id])
         /\ ChildAlive(id)
         /\ ChildAlive(id)'
         /\ mgr'[id].ptyProcess = mgr[id].ptyProcess )
       => ~NotRunning(mgr'[id])]_vars

\* C3: the screen grid has exactly rows rows and every row has exactly cols
\* characters.
C3_GridShape ==
  LET m == mgr[Standalone] IN
  /\ Len(m.screenBuffer) = m.rows
  /\ \A r \in 1..Len(m.screenBuffer) :
       m.screenBuffer[r] # Undefined /\ Len(m.screenBuffer[r]) = m.cols

\* C4: the cursor is inside the grid: 0 <= cursorRow < rows and
\* 0 <= cursorCol < cols.
C4_CursorInGrid ==
  LET m == mgr[Standalone] IN
  /\ 0 <= m.cursorRow /\ m.cursorRow < m.rows
  /\ 0 <= m.cursorCol /\ m.cursorCol < m.cols

\* C5: every step that changes the allocator hands out exactly the decimal
\* string of the old nextId and moves nextId up by one; no other step adds an
\* ID to the map; the ID of a created event is the one handed out; and every
\* ID in the map is the decimal string of a number in 1 .. nextId - 1.
C5_IdsIncreaseNeverReused ==
  [][ /\ nextId' # nextId =>
           /\ nextId' = nextId + 1
           /\ ToDecimal(nextId) \notin DOMAIN terminals
           /\ DOMAIN terminals' = DOMAIN terminals \cup {ToDecimal(nextId)}
      /\ nextId' = nextId => DOMAIN terminals' \subseteq DOMAIN terminals
      /\ \A e \in Events(emitted') :
           e.type = "created" =>
             nextId' = nextId + 1 /\ e.terminalId = ToDecimal(nextId)
      /\ DOMAIN terminals' \subseteq Allocated(nextId')
    ]_vars

\* C5: IDs of two digits are in the map while IDs handed out earlier are gone.
C5_Witness ==
  /\ nextId = MaxRegistryNextId
  /\ \E id \in DOMAIN terminals : Len(id) = 2
  /\ ToDecimal(1) \notin DOMAIN terminals

\* C6: while the server runs, the focused terminal ID is empty or a key of the
\* registry map.
C6_FocusInMap ==
  server = "up" => (focusedTerminalId = Null \/ has(terminals, focusedTerminalId))

\* C6: the focused session was killed and focus fell back to the session that
\* remains.
C6_Witness ==
  /\ server = "up"
  /\ nextId = 3
  /\ DOMAIN terminals = {ToDecimal(1)}
  /\ focusedTerminalId = ToDecimal(1)

\* C7: once both managers have consumed the stream, the one that received it
\* cut inside an escape sequence shows the same grid and cursor as the one that
\* received it whole.
C7_SplitSameAsWhole ==
  (pending[Whole] = <<>> /\ pending[Split] = <<>>)
    => getScreen(mgr[Split]) = getScreen(mgr[Whole])

\* C8: no step publishes a data or exit event tagged with an ID that is not in
\* the map (one that kill removed), and no step changes the grid or the raw
\* buffer of a session that kill removed.
C8_QuietAfterKill ==
  [][ /\ \A e \in Events(emitted') :
           e.type \in {"data", "exit"} => has(terminals', e.terminalId)
      /\ \A h \in (DOMAIN mgr \cap DOMAIN mgr') \ (DOMAIN terminals \cup {Legacy}) :
           /\ mgr'[h].screenBuffer = mgr[h].screenBuffer
           /\ mgr'[h].rawBuffer = mgr[h].rawBuffer
    ]_vars

\* C9: a step in which kill(id) removes a session (it publishes killed for id)
\* leaves get(id) empty and list() without id, and an ID that was handed out
\* and is not in the map is not in the map after any step.
C9_KilledStaysGone ==
  [][\A id \in Allocated(nextId) :
       /\ ( /\ has(terminals, id)
            /\ \E e \in Events(emitted') : e.type = "killed" /\ e.terminalId = id ) =>
            /\ ~has(terminals', id)
            /\ \A i \in 1..Len(list(terminals', mgr')) :
                 list(terminals', mgr')[i].id # id
       /\ ~has(terminals, id) => ~has(terminals', id)
    ]_vars

\* C9: a session was killed and a later session was created after it.
C9_Witness ==
  /\ server = "up"
  /\ ~has(terminals, ToDecimal(1))
  /\ has(terminals, ToDecimal(2))
  /\ Event("created", ToDecimal(2)) \in Events(emitted)

\* the numerically largest ID in the map
LargestId(ts) ==
  CHOOSE id \in DOMAIN ts : \A o \in DOMAIN ts : ParseInt10(o) <= ParseInt10(id)

\* C10: terminal-ID resolution returns the explicit ID when it exists (legacy
\* included) and fails with UnknownSession otherwise; with the ID omitted it
\* returns the focus if that is in the registry, else the numerically largest
\* ID in the registry, else legacy if the legacy session exists and is running,
\* else it fails with NoSession.
C10_ResolutionChain ==
  /\ \A t \in IdInputs :
       resolveTerminalId(t) =
         IF has(terminals, t) \/ (t = Legacy /\ Legacy \in DOMAIN mgr)
         THEN Reply("ok", t) ELSE Reply("UnknownSession", Null)
  /\ resolveTerminalId(Omitted) =
       IF focusedTerminalId # Null /\ has(terminals, focusedTerminalId)
       THEN Reply("ok", focusedTerminalId)
       ELSE IF DOMAIN terminals # {} THEN Reply("ok", LargestId(terminals))
       ELSE IF Legacy \in DOMAIN mgr /\ mgr[Legacy].isRunning
       THEN Reply("ok", Legacy)
       ELSE Reply("NoSession", Null)

\* C10: no focus, two sessions in the registry and a legacy session: the
\* resolution falls through to the largest ID.
C10_Witness ==
  /\ server = "up"
  /\ focusedTerminalId = Null
  /\ Cardinality(DOMAIN terminals) = 2
  /\ Legacy \in DOMAIN mgr

\* the step is a call of typeText or pressKey
InputStep == result'.tool \in {"typeText", "pressKey"}

\* C11: typeText and pressKey on a session whose child has exited or was
\* stopped fail with NotRunning and write nothing; whatever is written goes to
\* the live child the session owns at the time of the call; and no start,
\* stop, restart or exit step writes anything to a PTY (nothing is kept for a
\* later child).
C11_NoWriteWhenNotRunning ==
  [][ /\ (InputStep /\ ~ChildAlive(Standalone)) =>
           result'.error = "NotRunning" /\ result'.written = <<>>
      /\ \A i \in 1..Len(result'.written) :
           /\ InputStep
           /\ ChildAlive(Standalone)
           /\ result'.written[i].pid = mgr[Standalone].ptyProcess
    ]_vars

\* C11: an input was rejected after the child exited, and the session was
\* started before.
C11_Witness ==
  /\ result.tool \in {"typeText", "pressKey"}
  /\ result.error = "NotRunning"
  /\ mgr[Standalone].lastExitInfo = "exit"

\* the bytes the key rule assigns to a key name: Missing when it assigns none
KeyBytes(key) ==
  LET name == trim(toLowerCase(key))
      ctrl == <<"c", "t", "r", "l", "+">>
  IN IF /\ Len(name) = 6
        /\ SubSeq(name, 1, 5) = ctrl
        /\ CharCode(name[6]) >= 97 /\ CharCode(name[6]) <= 122
     THEN <<1 + (CharCode(name[6]) - 97)>>
     ELSE IF name \in DOMAIN KEY_SEQUENCES THEN KEY_SEQUENCES[name]
     ELSE IF Len(key) = 1 THEN Encode(key)
     ELSE Missing

\* C13: pressKey on a running session writes exactly the bytes of the key
\* rule (ctrl+letter, then the named-key table, then a single character
\* verbatim), and fails with UnknownKey, writing nothing, for every other name.
C13_KeyBytes ==
  \A key \in KeyInputs, rejects \in BOOLEAN :
    ~NotRunning(mgr[Standalone]) =>
      pressKey(mgr[Standalone], key, rejects) =
        IF KeyBytes(key) = Missing THEN Rejected("UnknownKey")
        ELSE Wrote(KeyBytes(key))

\* C12: start() on a session whose child is alive throws AlreadyRunning, and
\* start() on a session without a command throws InvalidCommand; either way
\* the object (running flag, grid, cursor, raw buffer, exit record) is the one
\* before the call, so nothing was spawned and no start event was emitted.
C12_StartRejected ==
  LET m == mgr[Standalone] IN
  \A child \in 0..MaxProcs :
    /\ ChildAlive(Standalone) => start(m, child) = Raise(m, "AlreadyRunning")
    /\ (~ChildAlive(Standalone) /\ ~m.isRunning /\ m.options.command = "") =>
         start(m, child) = Raise(m, "InvalidCommand")

\* C14: the raw output log never holds more than N characters.
C14_RawLogBounded == Len(mgr[Standalone].rawBuffer) <= RawRingBound

\* C15: no step throws outside a request's reply: applying a chunk of child
\* output to the grid never throws, so the process that hosts the session is
\* never brought down by an uncaught exception.
C15_ChunkNeverThrows == server # "crashed"

\* the character of cell (i, j) of a grid, counted from 1; Undefined when the
\* grid has no such cell
Cell(buf, i, j) ==
  IF i <= Len(buf) /\ buf[i] # Undefined /\ j <= Len(buf[i]) THEN buf[i][j]
  ELSE "undefined"

\* C16: whatever the grid, a snapshot taken after resize(c, r) has r rows of c
\* characters; a cell inside both the old and the new size holds the character
\* it held before, and every other cell is a space.
C16_ResizeKeepsOverlap ==
  LET m == mgr[Standalone] IN
  \A c \in 1..MaxDim, r \in 1..MaxDim :
    LET snap == getScreen(resize(m, c, r)) IN
    /\ Len(snap.lines) = r
    /\ \A i \in 1..r, j \in 1..c :
         Cell(snap.lines, i, j) =
           IF i <= Min(r, m.rows) /\ j <= Min(c, m.cols)
           THEN Cell(m.screenBuffer, i, j) ELSE SPACE
    /\ \A i \in 1..r : snap.lines[i] # Undefined /\ Len(snap.lines[i]) = c

\* the children of session id that have neither exited nor been sent a kill
ChildrenOf(ps, id) == {p \in ps : p.owner = id /\ ~p.killed}

C18_CreateProcessFocusesNew ==
  [][ result'.tool = "create_process" =>
        /\ nextId' = nextId + 1
        /\ result'.error = "none" =>
             /\ result'.id = ToDecimal(nextId)
             /\ focusedTerminalId' = ToDecimal(nextId)
             /\ ~has(terminals, ToDecimal(nextId))
             /\ DOMAIN terminals' = DOMAIN terminals \cup {ToDecimal(nextId)}
             /\ ChildrenOf(procs', ToDecimal(nextId)) # {}
             /\ \A o \in DOMAIN terminals :
                  /\ terminals'[o] = terminals[o]
                  /\ mgr'[o] = mgr[o]
                  /\ ChildrenOf(procs', o) = ChildrenOf(procs, o)
    ]_vars

\* C18: the second create_process returned "2" and moved the focus from "1"
\* to it; session "1" is still running.
C18_Witness ==
  /\ result.tool = "create_process" /\ result.id = ToDecimal(2)
  /\ focusedTerminalId = ToDecimal(2)
  /\ has(terminals, ToDecimal(1)) /\ ChildAlive(ToDecimal(1))

\* C19: a stop_tui step taken while the focused session's child is alive
\* terminates that child; afterwards the focus is the numerically largest ID
\* left in the map, or empty when none is left; and no child of another
\* session is terminated.
C19_StopTuiStopsFocused ==
  [][ ( /\ result'.tool = "stop_tui"
        /\ focusedTerminalId # Null /\ has(terminals, focusedTerminalId)
        /\ ChildrenOf(procs, focusedTerminalId) # {} ) =>
        /\ ChildrenOf(procs', focusedTerminalId) = {}
        /\ focusedTerminalId' =
             IF DOMAIN terminals' = {} THEN Null ELSE LargestId(terminals')
        /\ \A o \in DOMAIN terminals \ {focusedTerminalId} :
             ChildrenOf(procs', o) = ChildrenOf(procs, o)
    ]_vars

\* C20: no kill_process step changes the legacy session, and a stop_tui step
\* taken while the registry is empty and the legacy session's child is alive
\* terminates that child.
C20_LegacyKilledByStopTuiOnly ==
  [][ /\ (Legacy \in DOMAIN mgr /\ result'.tool = "kill_process") =>
           (mgr'[Legacy] = mgr[Legacy] /\
            ChildrenOf(procs', Legacy) = ChildrenOf(procs, Legacy))
      /\ (result'.tool = "stop_tui" /\ DOMAIN terminals = {} /\
          ChildrenOf(procs, Legacy) # {}) =>
           (ChildrenOf(procs', Legacy) = {})
    ]_vars

\* C21: a stop() step taken on a manager that is not running (never started,
\* already stopped, or exited) returns normally and changes nothing: the
\* manager's fields, the children and the signals sent to them, and the events.
C21_StopIdempotent ==
  [][ (result'.tool = "stop" /\ NotRunning(mgr[Standalone])) =>
        /\ result'.error = "none"
        /\ mgr' = mgr
        /\ procs' = procs
        /\ emitted' = emitted
    ]_vars

\* C21: stop() was called on a started manager: its child was signalled and
\* has not exited yet, and the manager is no longer running.
C21_Witness ==
  /\ result.tool = "stop"
  /\ NotRunning(mgr[Standalone])
  /\ \E p \in procs : p.pid = mgr[Standalone].ptyProcess /\ p.killed

\* C22: for every ID the map does not hold, kill(id) returns false, leaves the
\* map, the managers and the children as they are and publishes no event (the
\* allocator is not among the things kill assigns).
C22_KillMissingNoEffect ==
  \A id \in RegistryIds \cup {Legacy} :
    ~has(terminals, id) =>
      kill(id) = [found |-> FALSE, terminals |-> terminals, mgr |-> mgr,
                  procs |-> procs, emitted |-> <<>>]

\* C22: session "1" was killed, session "2" is in the map, and the last step
\* was a kill of an ID that is not in the map.
C22_Witness ==
  /\ nextId = 3
  /\ ~has(terminals, ToDecimal(1)) /\ has(terminals, ToDecimal(2))
  /\ emitted = <<>>

\* the child ptyProcess refers to exited by itself: stop() did not clear the
\* flag before its onExit callback ran
ExitedOnItsOwn(s) ==
  /\ ~mgr[s].isRunning
  /\ mgr[s].lastExitInfo = "exit"
  /\ \A p \in procs : p.owner = s => p.pid # mgr[s].ptyProcess

\* C23: a step in which the running child of a registry session exits leaves
\* the session in the map with running = false and its grid and raw buffer as
\* they were; and while a session whose child exited by itself stays in the
\* map and run_tui is not called, it keeps running = false, its grid and its
\* raw buffer, and typeText throws 'PTY is not running'.
C23_ExitedSessionKeepsOutput ==
  [][ \A s \in DOMAIN terminals :
        /\ (\E p \in procs :
              /\ p.owner = s /\ p.pid = mgr[s].ptyProcess /\ ~p.killed
              /\ \A q \in procs' : q.owner = s => q.pid # p.pid) =>
             /\ has(terminals', s) /\ ~terminals'[s].running
             /\ getScreen(mgr'[s]) = getScreen(mgr[s])
             /\ mgr'[s].rawBuffer = mgr[s].rawBuffer
             /\ \A text \in TextInputs : typeText(mgr'[s], text).error = "NotRunning"
        /\ (ExitedOnItsOwn(s) /\ has(terminals', s) /\ result'.tool # "run_tui") =>
             /\ ~terminals'[s].running
             /\ getScreen(mgr'[s]) = getScreen(mgr[s])
             /\ mgr'[s].rawBuffer = mgr[s].rawBuffer
             /\ \A text \in TextInputs : typeText(mgr'[s], text).error = "NotRunning"
    ]_vars

\* C24: the env every newly spawned child is given is process.env, with TERM
\* and COLORTERM set to the two fixed values, with the entries of the recipe's
\* env over both.
C24_RecipeEnvWins ==
  [][ \A p \in procs' :
        (\A q \in procs : q.pid # p.pid) =>
          p.env = Spread(Spread(p.inherited,
                                [TERM |-> "xterm-256color",
                                 COLORTERM |-> "truecolor"]),
                         mgr'[Standalone].options.env)
    ]_vars

\* the sink operations of kind op among ops
OpsOf(ops, op) == {i \in 1..Len(ops) : ops[i].op = op}

\* C25: the step in which the server exits on SIGINT / SIGTERM leaves no child
\* of a registry session or of the legacy session unsignalled, writes the
\* live file exactly once when --live-file is configured and there is a
\* session to show, and restores the live terminal when --live is in effect.
C25_ShutdownFlushesSinks ==
  [][ (server = "up" /\ server' = "exited") =>
        /\ \A p \in procs' : p.killed
        /\ (live.file /\
            getFocusedManager(focusedTerminalId, terminals, mgr) # Null) =>
             Cardinality(OpsOf(live'.ops, "write")) = 1
        /\ live.tty => OpsOf(live'.ops, "cleanup") # {}
    ]_vars

\* C30: with live mirroring on, at most one redraw is pending after any step;
\* after a step that publishes data of the focused terminal a redraw is
\* pending; and the redraw that runs when the timer fires, once the focused
\* session has produced output, draws the focused session's grid as it is
\* then, with every chunk so far applied.
C30_RedrawFollowsData ==
  [][ /\ Len(live'.timers) <= 1
      /\ \A e \in Events(emitted') :
           ( /\ live.tty \/ live.file
             /\ e.type = "data"
             /\ e.terminalId = (IF focusedTerminalId # Null THEN focusedTerminalId
                                ELSE getLastTerminalId(terminals)) ) =>
             live'.timers # <<>>
      /\ LET h == getFocusedManager(focusedTerminalId, terminals, mgr) IN
         ( /\ Len(live'.timers) < Len(live.timers)
           /\ has(terminals, h)
           /\ mgr[h].rawBuffer # <<>> ) =>
           live'.ops = broadcastLiveDisplay(live, mgr[h])
    ]_vars

\* C26 as stated: on the fresh 80 x 24 session, once ESC[2J ESC[H Hello LF
\* World LF have been applied, row 0 is Hello, row 1 is World from column 0,
\* every other row is blank and the cursor is at (2, 0).
C26_WorldAtColumnZero ==
  LET m == mgr[Standalone] IN
  (m.cols = 80 /\ pending[Standalone] = <<>>) =>
    /\ m.screenBuffer[1] = PadEnd(<<"H", "e", "l", "l", "o">>, 80)
    /\ m.screenBuffer[2] = PadEnd(<<"W", "o", "r", "l", "d">>, 80)
    /\ \A r \in 3..24 : m.screenBuffer[r] = Blank(80)
    /\ m.cursorRow = 2 /\ m.cursorCol = 0

\* C26 amended: on the fresh 80 x 24 session, once ESC[2J ESC[H Hello LF
\* World LF have been applied, row 0 is Hello, row 1 is five spaces followed
\* by World (the line feed keeps the column), every other row is blank and the
\* cursor is at (2, 10).
C26_WorldKeepsColumn ==
  LET m == mgr[Standalone] IN
  (m.cols = 80 /\ pending[Standalone] = <<>>) =>
    /\ Len(m.screenBuffer) = 24
    /\ m.screenBuffer[1] = PadEnd(<<"H", "e", "l", "l", "o">>, 80)
    /\ m.screenBuffer[2] = PadEnd(Blank(5) \o <<"W", "o", "r", "l", "d">>, 80)
    /\ \A r \in 3..24 : m.screenBuffer[r] = Blank(80)
    /\ m.cursorRow = 2 /\ m.cursorCol = 10

\* C26: the whole stream was applied to the 80 x 24 session and the W of World
\* is on the screen.
C26_Witness ==
  /\ mgr[Standalone].cols = 80
  /\ pending[Standalone] = <<>>
  /\ Len(mgr[Standalone].rawBuffer) = 19
  /\ \E j \in 1..80 : mgr[Standalone].screenBuffer[2][j] = "W"

\* C27 as stated: on the blank 10 x 3 grid, once 35 printable characters have
\* been written, rows 0-2 hold the last 30 of them and the cursor is on row 2.
C27_LastThirtyShown ==
  LET m == mgr[Standalone] IN
  (m.cols = 10 /\ pending[Standalone] = <<>> /\ Len(m.rawBuffer) = 35
     /\ m.rawBuffer[1] = "A") =>
    /\ m.screenBuffer[1] \o m.screenBuffer[2] \o m.screenBuffer[3]
         = SubSeq(m.rawBuffer, 6, 35)
    /\ m.cursorRow = 2

\* C27 amended: on the blank 10 x 3 grid, once 35 printable characters have
\* been written, the first row written has scrolled away: row 0 holds
\* characters 11-20, row 1 characters 21-30, row 2 characters 31-35 followed
\* by five spaces, and the cursor is at row 2, column 5, the column after the
\* last character written.
C27_LastTwentyFiveShown ==
  LET m == mgr[Standalone] IN
  (m.cols = 10 /\ pending[Standalone] = <<>> /\ Len(m.rawBuffer) = 35
     /\ m.rawBuffer[1] = "A") =>
    /\ m.screenBuffer = <<SubSeq(m.rawBuffer, 11, 20), SubSeq(m.rawBuffer, 21, 30),
                          SubSeq(m.rawBuffer, 31, 35) \o Blank(5)>>
    /\ m.cursorRow = 2 /\ m.cursorCol = 5

\* C27: all 35 characters were written to the 10 x 3 grid and the last of them
\* is on row 2.
C27_Witness ==
  /\ mgr[Standalone].cols = 10
  /\ pending[Standalone] = <<>>
  /\ Len(mgr[Standalone].rawBuffer) = 35
  /\ mgr[Standalone].rawBuffer[35] = "i"
  /\ mgr[Standalone].screenBuffer[3][5] = "i"

\* C28: a chunk that is one of the CSI samples followed by b leaves the grid
\* and the cursor as b alone would: nothing of the sequence is written, the
\* sequence changes neither grid nor cursor, and b is put where it would have
\* been put.
C28_CsiConsumedWhole ==
  [][ \A csi \in CsiSamples :
        ( /\ pending[Standalone] # <<>>
          /\ Head(pending[Standalone]) = csi \o <<"b">>
          /\ pending'[Standalone] = Tail(pending[Standalone]) ) =>
          getScreen(mgr'[Standalone])
            = getScreen(processOutput(mgr[Standalone], <<"b">>).m)
    ]_vars

\* C29: a chunk that is CSI K or CSI J with mode 0, 1 or 2 (or 3 for J, none
\* for 0) blanks the cells the mode names, from the cursor as it was before
\* the chunk, and leaves every other cell of the grid with its character.
C29_EraseExactCells ==
  [][ LET m == mgr[Standalone]
          chunk == Head(pending[Standalone])
          final == chunk[Len(chunk)]
          mode == ParseInt10(SubSeq(chunk, 3, Len(chunk) - 1))
          Erased(i, j) ==
            IF final = "K"
            THEN i = m.cursorRow /\ CASE mode = 0 -> j >= m.cursorCol
                                      [] mode = 1 -> j <= m.cursorCol
                                      [] OTHER -> TRUE
            ELSE CASE mode = 0 -> i > m.cursorRow \/
                                  (i = m.cursorRow /\ j >= m.cursorCol)
                   [] mode = 1 -> i < m.cursorRow \/
                                  (i = m.cursorRow /\ j <= m.cursorCol)
                   [] OTHER -> TRUE
      IN ( /\ pending[Standalone] # <<>>
           /\ pending'[Standalone] = Tail(pending[Standalone])
           /\ chunk[1] = ESC
           /\ final \in {"J", "K"}
           /\ ~(final = "K" /\ mode = 3) ) =>
           /\ Len(mgr'[Standalone].screenBuffer) = m.rows
           /\ \A i \in 0..(m.rows - 1) :
                /\ Len(mgr'[Standalone].screenBuffer[i + 1]) = m.cols
                /\ \A j \in 0..(m.cols - 1) :
                     Cell(mgr'[Standalone].screenBuffer, i + 1, j + 1) =
                       IF Erased(i, j) THEN SPACE
                       ELSE Cell(m.screenBuffer, i + 1, j + 1)
    ]_vars

\* C29: CSI 0 K was applied with the cursor at (1, 4) on the 10 x 3 grid of X:
\* row 1 is XXXX and six spaces, rows 0 and 2 are as they were.
C29_Witness ==
  LET m == mgr[Standalone] IN
  /\ m.cols = 10 /\ pending[Standalone] = <<>>
  /\ m.cursorRow = 1 /\ m.cursorCol = 4
  /\ SubSeq(m.rawBuffer, Len(m.rawBuffer) - 3, Len(m.rawBuffer))
       = <<ESC, "[", "0", "K">>
  /\ m.screenBuffer = <<[j \in 1..10 |-> "X"],
                        [j \in 1..4 |-> "X"] \o Blank(6),
                        [j \in 1..9 |-> "X"] \o Blank(1)>>

\* C31: no child is left alive and unsignalled once its session has been
\* removed from the registry: every child of a session the map no longer
\* holds was sent a termination signal.
C31_RemovedSessionLeavesNoChild ==
  \A p \in procs :
    (p.owner # Legacy /\ ~has(terminals, p.owner)) => p.killed

C34_FailedCreateLeavesNoEntry ==
  [][ (nextId' = nextId + 1 /\ procs' = procs) =>
        ( /\ ~has(terminals', ToDecimal(nextId))
          /\ list(terminals', mgr') = list(terminals, mgr)
          /\ getTerminalIds(terminals') = getTerminalIds(terminals)
          /\ Cardinality(DOMAIN terminals') = Cardinality(DOMAIN terminals)
          /\ getLastTerminalId(terminals') = getLastTerminalId(terminals)
          /\ Event("created", ToDecimal(nextId)) \notin Events(emitted') )
    ]_vars

\* C35: every chunk appended to a session's raw buffer was written by the
\* child its latest start spawned: a step that appends to the raw buffer of a
\* registry session finds that child, the one ptyProcess refers to, among the
\* children that have not exited.
C35_OnlyCurrentChildWrites ==
  [][ \A s \in DOMAIN terminals :
        ( /\ s \in DOMAIN mgr'
          /\ Len(mgr'[s].rawBuffer) > Len(mgr[s].rawBuffer) ) =>
          \E p \in procs : p.owner = s /\ p.pid = mgr[s].ptyProcess
    ]_vars

\* C36: after a run_tui that succeeded, the command list() reports for the ID
\* the reply names is the command that run_tui started there.
C36_ListReportsStartedCommand ==
  [][ (result'.tool = "run_tui" /\ result'.error = "none") =>
        \E i \in 1..Len(list(terminals', mgr')) :
          /\ list(terminals', mgr')[i].id = result'.id
          /\ list(terminals', mgr')[i].command = result'.command
    ]_vars

\* C37: after every request and every callback, the running value list()
\* reports for an entry of the registry is the running flag of its session.
C37_ListRunningIsSessionRunning ==
  \A i \in 1..Len(list(terminals, mgr)) :
    list(terminals, mgr)[i].running = mgr[list(terminals, mgr)[i].id].isRunning

\* C38: a chunk that is CSI J or CSI K, in mode 0, 1, 2 or 3 (none for 0),
\* leaves the cursor's row and column as they were.
C38_EraseKeepsCursor ==
  [][ LET chunk == Head(pending[Standalone]) IN
      ( /\ pending[Standalone] # <<>>
        /\ pending'[Standalone] = Tail(pending[Standalone])
        /\ chunk[1] = ESC
        /\ chunk[Len(chunk)] \in {"J", "K"} ) =>
        /\ mgr'[Standalone].cursorRow = mgr[Standalone].cursorRow
        /\ mgr'[Standalone].cursorCol = mgr[Standalone].cursorCol
    ]_vars

\* C39: whenever a killed event for an ID is delivered, by kill(id) or by
\* killAll(), get(id) finds nothing.
C39_KilledSeenAfterRemoval ==
  \A e \in Events(emitted) : e.type = "killed" => ~e.present

\* C40: the focused value list_tabs returns is the terminal an operation with
\* terminal_id omitted resolves to, and it is null exactly when that
\* resolution fails with NoSession.
C40_ListTabsFocusIsResolution ==
  LET r == resolveTerminalId(Omitted) IN
  server = "up" =>
    /\ r.status = "ok" => effectiveFocused = r.id
    /\ effectiveFocused = Null <=> r.status = "NoSession"

====
